---- MODULE Spec2Model ----
(***************************************************************************)
(* Customer switching analysis (everything-switching).                     *)
(*                                                                         *)
(* Spec      the switching query of modules/query_builder.py, evaluated    *)
(*           over a small sales table, followed by the Brand / Product     *)
(*           view preparation of app.py.                                   *)
(* SpecView  the client-side view and summary functions of                 *)
(*           modules/brand_filter.py and modules/data_processor.py,        *)
(*           applied to a classified flow table.                           *)
(* SpecMapping   the CustomType mapping text: build_case_statement and     *)
(*               parse_barcode_mapping.                                    *)
(* SpecCatalog   the switching query over a catalog with two products of   *)
(*               one brand.                                                *)
(* SpecCross     the cross-category query of modules/query_builder.py.     *)
(* SpecSession   the reruns of app.py over st.session_state: login gate,   *)
(*               analysis mode selector, result blocks.                    *)
(* SpecTracking  the usage database of modules/tracking.py.                *)
(***************************************************************************)
EXTENDS Integers, Sequences, FiniteSets, TLC

VARIABLES
    sales,           \* rows of the sales table (joined with product master)
    params,          \* arguments of the last build_switching_query call
    profiles,        \* rows of the CTE primary_identification
    results_df,      \* st.session_state.results_df: rows of classify
    query_executed,  \* st.session_state.query_executed
    view_mode,       \* the "View Level" radio of app.py
    df_working,      \* df_working of app.py
    df,              \* the flow table handed to a view / summary function
    call,            \* the last view / summary call and its arguments
    out,             \* what that call returned
    mapping_text,    \* the barcode mapping text area, as its lines
    case_statement,  \* what build_case_statement returned for it
    parsed_mapping,  \* what parse_barcode_mapping returned for it
    cross_sales,     \* rows of the sales table of the cross-category run
    cross_params,    \* arguments of the build_cross_category_query call
    cross_flow,      \* rows of the CTE customer_flow of that query
    cross_category_df,        \* st.session_state.cross_category_df
    cross_category_executed,  \* st.session_state.cross_category_executed
    session_state,   \* st.session_state of a browser session (login, modes)
    rendered,        \* what the last rerun of app.py rendered
    event,           \* the browser event that started that rerun
    tracking_db,     \* usage_tracking.db: the sessions and events tables
    log_call         \* the last call of tracking.log_event

vars == <<sales, params, profiles, results_df, query_executed, view_mode,
          df_working, df, call, out, mapping_text, case_statement,
          parsed_mapping, cross_sales, cross_params, cross_flow,
          cross_category_df, cross_category_executed, session_state,
          rendered, event, tracking_db, log_call>>

queryVars == <<sales, params, profiles, results_df, query_executed,
               view_mode, df_working>>
viewVars == <<df, call, out>>
mapVars == <<mapping_text, case_statement, parsed_mapping>>
crossVars == <<cross_sales, cross_params, cross_flow, cross_category_df,
               cross_category_executed>>

sessionVars == <<session_state, rendered, event>>
trackingVars == <<tracking_db, log_call>>

\* the variables outside the switching query and the view functions
restVars == <<mapVars, crossVars, sessionVars, trackingVars>>

\* the variables outside the mapping text
outsideMapping ==
    <<queryVars, viewVars, crossVars, sessionVars, trackingVars>>

\* the variables outside the cross-category run
outsideCross ==
    <<queryVars, viewVars, mapVars, sessionVars, trackingVars>>

\* the variables outside the browser session
outsideSession ==
    <<queryVars, viewVars, mapVars, crossVars, trackingVars>>

\* the variables outside the usage database
outsideTracking ==
    <<queryVars, viewVars, mapVars, crossVars, sessionVars>>

----------------------------------------------------------------------------
(* Bounds of the model *)

MaxSales == 2
MaxRows == 2
MaxCrossSales == 2
MaxEvents == 2

----------------------------------------------------------------------------
(* Values *)

Null == "<NULL>"
NEW_TO_CATEGORY == "NEW_TO_CATEGORY"
LOST_FROM_CATEGORY == "LOST_FROM_CATEGORY"
MIXED == "MIXED"
OTHERS == "OTHERS"

RECURSIVE SumOver(_, _)
\* SUM(col) over a set of rows; col is the name of an integer column.
SumOver(rows, col) ==
    IF rows = {} THEN 0
    ELSE LET r == CHOOSE x \in rows : TRUE
         IN  r[col] + SumOver(rows \ {r}, col)

MaxOf(S) == CHOOSE x \in S : \A y \in S : y <= x

----------------------------------------------------------------------------
(* The source tables *)

CustomerCodes == {"0", "c1", "c2"}
Dates == {1, 2}
Amounts == {0, 1, 2}

\* PCB_PRODUCT_MASTER: Barcode -> ProductName, Brand
ProductMaster ==
    [b \in {"b1", "b2", "b3", "b4"} |->
        CASE b = "b1" -> [ProductName |-> "P1", Brand |-> "A"]
          [] b = "b2" -> [ProductName |-> "P1", Brand |-> "A"]
          [] b = "b3" -> [ProductName |-> "P2", Brand |-> "B"]
          [] b = "b4" -> [ProductName |-> "P3", Brand |-> "A"]]

Barcodes == DOMAIN ProductMaster

\* sales of one product through two barcodes and of a product of another
\* brand
SalesRows ==
    [CustomerCode : CustomerCodes, Date : Dates, Barcode : {"b1", "b2", "b3"},
     TotalSales : Amounts]

\* sales of two products of one brand and of a product of another brand
CatalogSalesRows ==
    [CustomerCode : {"c1", "c2"}, Date : Dates, Barcode : {"b1", "b3", "b4"},
     TotalSales : {1}]

----------------------------------------------------------------------------
(* build_switching_query: the arguments *)

\* primary_threshold in percent: config.MIN / DEFAULT / MAX_PRIMARY_THRESHOLD
Thresholds == {0, 60, 100}

\* [period1_start, period1_end], [period2_start, period2_end]
PeriodChoices ==
    { [p1s |-> 1, p1e |-> 1, p2s |-> 2, p2e |-> 2],    \* disjoint
      [p1s |-> 1, p1e |-> 2, p2s |-> 2, p2e |-> 2],    \* overlapping
      [p1s |-> 1, p1e |-> 1, p2s |-> 1, p2e |-> 1] }   \* date 2 outside both

\* parsed barcode_mapping: the WHEN clauses of the CASE, in order
MappingChoices ==
    { << >>, << <<"b1", "T1">>, <<"b3", "T1">> >> }

BrandChoices == { {}, {"A"} }

ParamChoices ==
    [periods : PeriodChoices, primary_threshold : Thresholds,
     brands : BrandChoices, barcode_mapping : MappingChoices]

\* the defaults of the sidebar (config.DEFAULT_PRIMARY_THRESHOLD, no brand,
\* no mapping)
DefaultParams ==
    [periods |-> [p1s |-> 1, p1e |-> 1, p2s |-> 2, p2e |-> 2],
     primary_threshold |-> 60, brands |-> {}, barcode_mapping |-> << >>]

RECURSIVE CaseWhen(_, _, _)
\* CASE WHEN a.Barcode = '..' THEN '..' ... ELSE 'Other' END
CaseWhen(mapping, i, barcode) ==
    IF i > Len(mapping) THEN "Other"
    ELSE IF mapping[i][1] = barcode THEN mapping[i][2]
    ELSE CaseWhen(mapping, i + 1, barcode)

\* target_item_expr
TargetItem(p, barcode) ==
    IF p.barcode_mapping = << >> THEN ProductMaster[barcode].ProductName
    ELSE CaseWhen(p.barcode_mapping, 1, barcode)

InPeriod1(p, d) == p.periods.p1s <= d /\ d <= p.periods.p1e
InPeriod2(p, d) == p.periods.p2s <= d /\ d <= p.periods.p2e

\* date_filter
DateFilter(p, t) ==
    IF p.brands # {}
    THEN \/ InPeriod1(p, t.Date) /\ ProductMaster[t.Barcode].Brand \in p.brands
         \/ InPeriod2(p, t.Date)
    ELSE InPeriod1(p, t.Date) \/ InPeriod2(p, t.Date)

\* CASE WHEN Date BETWEEN period1.. THEN 2024 WHEN .. period2.. THEN 2025 END
YearOf(p, d) ==
    IF InPeriod1(p, d) THEN "2024"
    ELSE IF InPeriod2(p, d) THEN "2025"
    ELSE Null

\* WITH base AS (...): the rows of the analysed category that pass the date
\* filter and CustomerCode != '0' (the category, product-name and store
\* conditions select the sales table the rows are drawn from)
base(p, table) ==
    { [Date |-> t.Date, Year |-> YearOf(p, t.Date),
       CustomerCode |-> t.CustomerCode, TotalSales |-> t.TotalSales,
       TargetItem |-> TargetItem(p, t.Barcode), Barcode |-> t.Barcode,
       Brand |-> ProductMaster[t.Barcode].Brand] :
      t \in { s \in table : DateFilter(p, s) /\ s.CustomerCode # "0" } }

\* SAFE_DIVIDE(x, y): NULL when y = 0, else the ratio x / y kept as a pair
SafeDivide(x, y) ==
    IF y = 0 THEN [isnull |-> TRUE, num |-> 0, den |-> 0]
    ELSE [isnull |-> FALSE, num |-> x, den |-> y]

\* share_item >= PRIMARY_THRESHOLD (NULL compares as not true); the
\* threshold is in percent and the ratio is compared exactly
AtThreshold(p, share) ==
    /\ ~share.isnull
    /\ share.num * 100 >= p.primary_threshold * share.den

\* cust_item_stats AS (... GROUP BY Year, CustomerCode, TargetItem, Brand);
\* any_barcodes holds the values ANY_VALUE(Barcode) may return
cust_item_stats(p, table) ==
    LET rows == { r \in base(p, table) : r.Year # Null }
        grp(k) == { r \in rows : /\ r.Year = k[1] /\ r.CustomerCode = k[2]
                                 /\ r.TargetItem = k[3] /\ r.Brand = k[4] }
        part(k) == { r \in rows : r.Year = k[1] /\ r.CustomerCode = k[2] }
        keys == { <<r.Year, r.CustomerCode, r.TargetItem, r.Brand>> : r \in rows }
    IN  { [Year |-> k[1], CustomerCode |-> k[2], TargetItem |-> k[3],
           Brand |-> k[4],
           any_barcodes |-> { r.Barcode : r \in grp(k) },
           sales_item |-> SumOver(grp(k), "TotalSales"),
           last_tx |-> MaxOf({ r.Date : r \in grp(k) }),
           share_item |-> SafeDivide(SumOver(grp(k), "TotalSales"),
                                     SumOver(part(k), "TotalSales"))] :
          k \in keys }

\* ORDER BY flag DESC, share_item DESC, sales_item DESC, last_tx DESC:
\* g1 sorts strictly before g2 (both of one partition, so their shares have
\* one denominator, or are both NULL)
SortsBefore(p, g1, g2) ==
    LET f1 == IF AtThreshold(p, g1.share_item) THEN 1 ELSE 0
        f2 == IF AtThreshold(p, g2.share_item) THEN 1 ELSE 0
        s1 == g1.share_item.num
        s2 == g2.share_item.num
    IN  \/ f1 > f2
        \/ f1 = f2 /\ s1 > s2
        \/ f1 = f2 /\ s1 = s2 /\ g1.sales_item > g2.sales_item
        \/ f1 = f2 /\ s1 = s2 /\ g1.sales_item = g2.sales_item
           /\ g1.last_tx > g2.last_tx

\* the SELECT list of primary_identification for the row g, ANY_VALUE = b
ProfileOf(p, g, b) ==
    LET primary == AtThreshold(p, g.share_item)
    IN  [Year |-> g.Year, CustomerCode |-> g.CustomerCode,
         primary_item |-> IF primary THEN g.TargetItem ELSE MIXED,
         primary_barcode |-> IF primary THEN b ELSE Null,
         primary_brand |-> IF primary THEN g.Brand ELSE MIXED]

\* the rows ROW_NUMBER() ... = 1 may keep for the partition of g
RowNumberOne(p, stats, yr, cust) ==
    LET part == { g \in stats : g.Year = yr /\ g.CustomerCode = cust }
    IN  { g \in part : \A h \in part : ~SortsBefore(p, h, g) }

\* primary_identification: every table the CTE may produce (ANY_VALUE and
\* ROW_NUMBER over tied rows are not determined)
primary_identification(p, table) ==
    LET stats == cust_item_stats(p, table)
        parts == { <<g.Year, g.CustomerCode>> : g \in stats }
        candsOf(k) == { ProfileOf(p, gb[1], gb[2]) :
                          gb \in { x \in RowNumberOne(p, stats, k[1], k[2])
                                          \X Barcodes :
                                    x[2] \in x[1].any_barcodes } }
        all == UNION { candsOf(k) : k \in parts }
    IN  { P \in SUBSET all :
            \A k \in parts :
              Cardinality({ r \in P : r.Year = k[1] /\ r.CustomerCode = k[2] }) = 1 }

\* customer_flow grouped by CustomerCode and Year: one row per profile
customer_flow_perYear(prim) ==
    { [CustomerCode |-> r.CustomerCode,
       item_2024 |-> IF r.Year = "2024" THEN r.primary_item ELSE Null,
       barcode_2024 |-> IF r.Year = "2024" THEN r.primary_barcode ELSE Null,
       brand_2024 |-> IF r.Year = "2024" THEN r.primary_brand ELSE Null,
       item_2025 |-> IF r.Year = "2025" THEN r.primary_item ELSE Null,
       barcode_2025 |-> IF r.Year = "2025" THEN r.primary_barcode ELSE Null,
       brand_2025 |-> IF r.Year = "2025" THEN r.primary_brand ELSE Null] :
      r \in prim }

\* customer_flow AS (... GROUP BY CustomerCode)
customer_flow(prim) ==
    LET pick(c, yr, col) ==
            LET vals == { r[col] : r \in { x \in prim : x.CustomerCode = c
                                                       /\ x.Year = yr } }
                             \ {Null}
            IN  IF vals = {} THEN Null ELSE CHOOSE v \in vals : TRUE
    IN  { [CustomerCode |-> c,
           item_2024 |-> pick(c, "2024", "primary_item"),
           barcode_2024 |-> pick(c, "2024", "primary_barcode"),
           brand_2024 |-> pick(c, "2024", "primary_brand"),
           item_2025 |-> pick(c, "2025", "primary_item"),
           barcode_2025 |-> pick(c, "2025", "primary_barcode"),
           brand_2025 |-> pick(c, "2025", "primary_brand")] :
          c \in { r.CustomerCode : r \in prim } }

Coalesce(v, d) == IF v = Null THEN d ELSE v

\* the CASE of classify with the MIXED sentinel never counted as stayed
MoveType_mixedSwitched(item_2024, item_2025) ==
    IF item_2024 = Null /\ item_2025 # Null THEN "new_to_category"
    ELSE IF item_2024 # Null /\ item_2025 = Null THEN "lost_from_category"
    ELSE IF item_2024 # Null /\ item_2025 # Null /\ item_2024 = item_2025
            /\ item_2024 # MIXED
         THEN "stayed"
    ELSE IF item_2024 # Null /\ item_2025 # Null
         THEN "switched"
    ELSE "unknown"

\* the CASE of classify
MoveType(item_2024, item_2025) ==
    IF item_2024 = Null /\ item_2025 # Null THEN "new_to_category"
    ELSE IF item_2024 # Null /\ item_2025 = Null THEN "lost_from_category"
    ELSE IF item_2024 # Null /\ item_2025 # Null /\ item_2024 = item_2025
         THEN "stayed"
    ELSE IF item_2024 # Null /\ item_2025 # Null /\ item_2024 # item_2025
         THEN "switched"
    ELSE "unknown"

\* classify AS (... GROUP BY 1, 2, 3, 4, 5, 6, 8)
classify(flow) ==
    LET key(f) == [prod_2024 |-> Coalesce(f.item_2024, NEW_TO_CATEGORY),
                   prod_2025 |-> Coalesce(f.item_2025, LOST_FROM_CATEGORY),
                   barcode_2024 |-> f.barcode_2024,
                   barcode_2025 |-> f.barcode_2025,
                   brand_2024 |-> Coalesce(f.brand_2024, NEW_TO_CATEGORY),
                   brand_2025 |-> Coalesce(f.brand_2025, LOST_FROM_CATEGORY),
                   move_type |-> MoveType(f.item_2024, f.item_2025)]
    IN  { [prod_2024 |-> k.prod_2024, prod_2025 |-> k.prod_2025,
           barcode_2024 |-> k.barcode_2024, barcode_2025 |-> k.barcode_2025,
           brand_2024 |-> k.brand_2024, brand_2025 |-> k.brand_2025,
           customers |-> Cardinality({ f \in flow : key(f) = k }),
           move_type |-> k.move_type] :
          k \in { key(f) : f \in flow } }

----------------------------------------------------------------------------
(* app.py: preparing df_working for the selected view level *)

\* df_working.groupby(['brand_2024','brand_2025','move_type'])
\*           .agg({'customers':'sum'}) renamed to prod_2024 / prod_2025
BrandLevel(rows) ==
    LET key(r) == <<r.brand_2024, r.brand_2025, r.move_type>>
    IN  { [prod_2024 |-> k[1], prod_2025 |-> k[2], move_type |-> k[3],
           customers |-> SumOver({ r \in rows : key(r) = k }, "customers")] :
          k \in { key(r) : r \in rows } }

\* is_custom_mode: the mapping text holds a mapping
IsCustomMode(p) == p.barcode_mapping # << >>

\* df_working: the query result, grouped by brand in the Brand view
Working(rows, mode) == IF mode = "Product" THEN rows ELSE BrandLevel(rows)

----------------------------------------------------------------------------
(* The classified flow table handed to the view and summary functions *)

Unknown == "Unknown"

\* product names; the first word of a name is its brand
Items == {"A one", "A two", "B one"}

Counts == {1, 2}

\* rows a flow table can hold: the product-level rows of classify and the
\* brand-level rows of df_working (where a brand pair carries either
\* stayed or switched)
FlowRows ==
    { r \in [prod_2024 : Items \cup {MIXED, NEW_TO_CATEGORY},
             prod_2025 : Items \cup {MIXED, LOST_FROM_CATEGORY},
             move_type : {"new_to_category", "lost_from_category",
                          "stayed", "switched"},
             customers : Counts] :
        /\ (r.move_type = "new_to_category") <=> (r.prod_2024 = NEW_TO_CATEGORY)
        /\ (r.move_type = "lost_from_category")
              <=> (r.prod_2024 # NEW_TO_CATEGORY
                     /\ r.prod_2025 = LOST_FROM_CATEGORY)
        /\ ~(r.prod_2024 = NEW_TO_CATEGORY /\ r.prod_2025 = LOST_FROM_CATEGORY)
        /\ (r.prod_2024 = MIXED /\ r.prod_2025 = MIXED)
              => r.move_type = "stayed"
        /\ (r.prod_2024 = MIXED /\ r.prod_2025 \in Items)
              => r.move_type = "switched"
        /\ (r.prod_2024 \in Items /\ r.prod_2025 = MIXED)
              => r.move_type = "switched" }

\* the brands argument of filter_dataframe_by_brands
SelectionChoices == { {}, {"A one"}, {"A one", "B one"} }

\* the product_master_lookup argument of aggregate_to_brand_level:
\* no lookup, or a catalog that does not know "B one"
NoLookup == [i \in {} |-> Unknown]
LookupChoices == { NoLookup, [i \in {"A one", "A two"} |-> "A"] }

\* groupby(key).agg({'customers': 'sum'}); keyed holds <<key, row>> for
\* every row of the grouped table
GroupSum(keyed) ==
    { [prod_2024 |-> k[1], prod_2025 |-> k[2], move_type |-> k[3],
       customers |-> SumOver({ x[2] : x \in { y \in keyed : y[1] = k } },
                             "customers")] :
      k \in { x[1] : x \in keyed } }

----------------------------------------------------------------------------
(* DataFrame objects: which object a statement of a function writes to *)

\* a DataFrame object
Frame(id, rows) == [id |-> id, rows |-> rows]

\* plain assignment: another name for the object f
Copy_alias(f) == f

\* f.copy(): a new object with the rows of f
Copy(f) == [id |-> "copy", rows |-> f.rows]

\* the rows of the caller's table arg after a function wrote to the
\* object written
AfterWrite(arg, written) ==
    IF written.id = arg.id THEN written.rows ELSE arg.rows

\* 'NEW_TO_CATEGORY' -> 'New Customers', 'LOST_FROM_CATEGORY' -> 'Gone'
DisplayLabel(x) ==
    IF x = NEW_TO_CATEGORY THEN "New Customers"
    ELSE IF x = LOST_FROM_CATEGORY THEN "Gone"
    ELSE x

----------------------------------------------------------------------------
(* modules/brand_filter.py *)

\* filtered mode with another aggregation: 'count' for 'sum'
Filtered_count(rows, brands) ==
    LET from(r) == IF r.prod_2024 \notin brands
                      /\ r.prod_2024 # NEW_TO_CATEGORY
                   THEN OTHERS ELSE r.prod_2024
        to(r) == IF r.prod_2025 \notin brands
                    /\ r.prod_2025 \notin {NEW_TO_CATEGORY, LOST_FROM_CATEGORY}
                    /\ r.prod_2025 # MIXED
                 THEN OTHERS ELSE r.prod_2025
        key(r) == <<from(r), to(r), r.move_type>>
        grouped == { [prod_2024 |-> k[1], prod_2025 |-> k[2],
                      move_type |-> k[3],
                      customers |-> Cardinality({ r \in rows : key(r) = k })] :
                     k \in { key(r) : r \in rows } }
    IN  { g \in grouped :
            \/ g.prod_2024 \in brands \/ g.prod_2024 = NEW_TO_CATEGORY
            \/ g.prod_2024 = OTHERS /\ g.prod_2025 \in brands }

\* filtered mode without Step 4
Filtered_keepAll(rows, brands) ==
    LET from(r) == IF r.prod_2024 \notin brands
                      /\ r.prod_2024 # NEW_TO_CATEGORY
                   THEN OTHERS ELSE r.prod_2024
        to(r) == IF r.prod_2025 \notin brands
                    /\ r.prod_2025 \notin {NEW_TO_CATEGORY, LOST_FROM_CATEGORY}
                    /\ r.prod_2025 # MIXED
                 THEN OTHERS ELSE r.prod_2025
        key(r) == <<from(r), to(r), r.move_type>>
    IN  GroupSum({ <<key(r), r>> : r \in rows })

\* filtered mode with Step 2 renaming MIXED as well
Filtered_mixedToOthers(rows, brands) ==
    LET from(r) == IF r.prod_2024 \notin brands
                      /\ r.prod_2024 # NEW_TO_CATEGORY
                   THEN OTHERS ELSE r.prod_2024
        to(r) == IF r.prod_2025 \notin brands
                    /\ r.prod_2025 \notin {NEW_TO_CATEGORY, LOST_FROM_CATEGORY}
                 THEN OTHERS ELSE r.prod_2025
        key(r) == <<from(r), to(r), r.move_type>>
    IN  { g \in GroupSum({ <<key(r), r>> : r \in rows }) :
            \/ g.prod_2024 \in brands \/ g.prod_2024 = NEW_TO_CATEGORY
            \/ g.prod_2024 = OTHERS /\ g.prod_2025 \in brands }

\* filtered mode with Step 4 keeping every row from OTHERS but OTHERS -> OTHERS
Filtered_keepOthers(rows, brands) ==
    LET from(r) == IF r.prod_2024 \notin brands
                      /\ r.prod_2024 # NEW_TO_CATEGORY
                   THEN OTHERS ELSE r.prod_2024
        to(r) == IF r.prod_2025 \notin brands
                    /\ r.prod_2025 \notin {NEW_TO_CATEGORY, LOST_FROM_CATEGORY}
                    /\ r.prod_2025 # MIXED
                 THEN OTHERS ELSE r.prod_2025
        key(r) == <<from(r), to(r), r.move_type>>
    IN  { g \in GroupSum({ <<key(r), r>> : r \in rows }) :
            \/ g.prod_2024 \in brands \/ g.prod_2024 = NEW_TO_CATEGORY
            \/ g.prod_2024 = OTHERS /\ g.prod_2025 # OTHERS }

\* filter_dataframe_by_brands, mode 'filtered' (Steps 1 to 4)
Filtered(rows, brands) ==
    LET \* Step 1: prod_2024 not selected and not NEW_TO_CATEGORY -> OTHERS
        from(r) == IF r.prod_2024 \notin brands
                      /\ r.prod_2024 # NEW_TO_CATEGORY
                   THEN OTHERS ELSE r.prod_2024
        \* Step 2: prod_2025 not selected, not special, not MIXED -> OTHERS
        to(r) == IF r.prod_2025 \notin brands
                    /\ r.prod_2025 \notin {NEW_TO_CATEGORY, LOST_FROM_CATEGORY}
                    /\ r.prod_2025 # MIXED
                 THEN OTHERS ELSE r.prod_2025
        \* Step 3: groupby(['prod_2024','prod_2025','move_type']) sum
        key(r) == <<from(r), to(r), r.move_type>>
    IN  \* Step 4: rows from a selected brand or NEW_TO_CATEGORY, and
        \* OTHERS -> selected brand
        { g \in GroupSum({ <<key(r), r>> : r \in rows }) :
            \/ g.prod_2024 \in brands \/ g.prod_2024 = NEW_TO_CATEGORY
            \/ g.prod_2024 = OTHERS /\ g.prod_2025 \in brands }

\* full mode keeping NEW_TO_CATEGORY as filtered mode does
Full_keepNew(rows, brands) ==
    { r \in rows : r.prod_2024 \in brands \/ r.prod_2024 = NEW_TO_CATEGORY }

\* filter_dataframe_by_brands, mode 'full'
Full(rows, brands) == { r \in rows : r.prod_2024 \in brands }

\* filter_dataframe_by_brands without the early return for no brands
filter_dataframe_by_brands_noEarlyReturn(rows, brands, mode) ==
    IF mode = "full" THEN Full(rows, brands)
    ELSE Filtered(rows, brands)

\* filter_dataframe_by_brands(df, brands, mode)
filter_dataframe_by_brands(rows, brands, mode) ==
    IF brands = {} THEN rows
    ELSE IF mode = "full" THEN Full(rows, brands)
    ELSE Filtered(rows, brands)

\* filter_dataframe_by_brands: the rows of its argument df after the call.
\* Both early returns read df; the filtered mode writes Steps 1 and 2 with
\* .loc to filtered_df = df.copy() (Steps 3 and 4 rebind filtered_df).
filter_dataframe_by_brands_df(rows, brands, mode) ==
    IF brands = {} \/ mode = "full" THEN rows
    ELSE LET arg == Frame("df", rows)
             filtered_df == Copy(arg)
             from(r) == IF r.prod_2024 \notin brands
                           /\ r.prod_2024 # NEW_TO_CATEGORY
                        THEN OTHERS ELSE r.prod_2024
             to(r) == IF r.prod_2025 \notin brands
                         /\ r.prod_2025 \notin {NEW_TO_CATEGORY,
                                                LOST_FROM_CATEGORY}
                         /\ r.prod_2025 # MIXED
                      THEN OTHERS ELSE r.prod_2025
             written == [filtered_df EXCEPT !.rows =
                            { [r EXCEPT !.prod_2024 = from(r),
                                        !.prod_2025 = to(r)] : r \in @ }]
         IN  AfterWrite(arg, written)

----------------------------------------------------------------------------
(* modules/data_processor.py *)

SpecialCategories == {NEW_TO_CATEGORY, LOST_FROM_CATEGORY, MIXED}

\* product_name.split()[0]
FirstWord(name) ==
    CASE name \in {"A one", "A two"} -> "A"
      [] name = "B one" -> "B"
      [] OTHER -> name

\* extract_brand
extract_brand(product_name) ==
    IF product_name = Null \/ product_name = "" THEN Unknown
    ELSE IF product_name \in SpecialCategories THEN product_name
    ELSE FirstWord(product_name)

\* Series.map(product_master_lookup).fillna('Unknown')
MapLookup(lookup, name) ==
    IF name \in DOMAIN lookup THEN lookup[name] ELSE Unknown

\* aggregate_to_brand_level(df, product_master_lookup)
aggregate_to_brand_level(rows, lookup) ==
    LET brand(x) == IF DOMAIN lookup # {} THEN MapLookup(lookup, x)
                    ELSE extract_brand(x)
        key(r) == <<brand(r.prod_2024), brand(r.prod_2025), r.move_type>>
    IN  GroupSum({ <<key(r), r>> : r \in rows })

\* aggregate_to_brand_level: the rows of its argument df after the call.
\* The columns brand_2024 and brand_2025 are written to df_agg = df.copy().
aggregate_to_brand_level_df(rows, lookup) ==
    LET arg == Frame("df", rows)
        df_agg == Copy(arg)
        brand(x) == IF DOMAIN lookup # {} THEN MapLookup(lookup, x)
                    ELSE extract_brand(x)
        written == [df_agg EXCEPT !.rows =
                       { [prod_2024 |-> r.prod_2024, prod_2025 |-> r.prod_2025,
                          move_type |-> r.move_type, customers |-> r.customers,
                          brand_2024 |-> brand(r.prod_2024),
                          brand_2025 |-> brand(r.prod_2025)] : r \in @ }]
    IN  AfterWrite(arg, written)

\* round(x / total * 100, 1) in tenths of a percent, 0 when total is 0
\* (the ratio is rounded half to even)
Pct(x, total) ==
    IF total > 0
    THEN LET n == x * 1000
             q == n \div total
             rem == n % total
         IN  IF 2 * rem > total THEN q + 1
             ELSE IF 2 * rem < total THEN q
             ELSE IF q % 2 = 0 THEN q ELSE q + 1
    ELSE 0

\* calculate_brand_summary row with the inflow percentages taken against
\* the Period 1 total
SummaryRow_inflowOnPeriod1(brand, stayed, switch_out, gone, switch_in, new_customer) ==
    LET total_in == stayed + switch_in + new_customer
        total_out == switch_out + gone
        period1_total == stayed + switch_out + gone
        period2_total == stayed + switch_in + new_customer
    IN  [Brand |-> brand, Total_2024 |-> period1_total, Stayed |-> stayed,
         Switch_Out |-> switch_out, Gone |-> gone, Switch_In |-> switch_in,
         New_Customer |-> new_customer, Total_2025 |-> period2_total,
         Total_In |-> total_in, Total_Out |-> total_out,
         Net_Movement |-> total_in - total_out,
         Stayed_Pct |-> Pct(stayed, period1_total),
         Switch_Out_Pct |-> Pct(switch_out, period1_total),
         Gone_Pct |-> Pct(gone, period1_total),
         Switch_In_Pct |-> IF period1_total > 0
                           THEN (switch_in * 1000) \div period1_total
                           ELSE 0,
         New_Customer_Pct |-> IF period1_total > 0
                              THEN (new_customer * 1000) \div period1_total
                              ELSE 0]


\* one row of the summary with the five counts given
SummaryRow(brand, stayed, switch_out, gone, switch_in, new_customer) ==
    LET total_in == stayed + switch_in + new_customer
        total_out == switch_out + gone
        period1_total == stayed + switch_out + gone
        period2_total == stayed + switch_in + new_customer
    IN  [Brand |-> brand, Total_2024 |-> period1_total, Stayed |-> stayed,
         Switch_Out |-> switch_out, Gone |-> gone, Switch_In |-> switch_in,
         New_Customer |-> new_customer, Total_2025 |-> period2_total,
         Total_In |-> total_in, Total_Out |-> total_out,
         Net_Movement |-> total_in - total_out,
         Stayed_Pct |-> Pct(stayed, period1_total),
         Switch_Out_Pct |-> Pct(switch_out, period1_total),
         Gone_Pct |-> Pct(gone, period1_total),
         Switch_In_Pct |-> Pct(switch_in, total_in),
         New_Customer_Pct |-> Pct(new_customer, total_in)]

\* calculate_brand_summary counting every row from brand to brand as stayed
calculate_brand_summary_anyType(rows) ==
    LET brands == ({ r.prod_2024 : r \in rows } \cup { r.prod_2025 : r \in rows })
                     \ SpecialCategories
        n(sel) == SumOver(sel, "customers")
    IN  { SummaryRow(b,
            n({ r \in rows : r.prod_2024 = b /\ r.prod_2025 = b }),
            n({ r \in rows : r.prod_2024 = b /\ r.prod_2025 # b
                             /\ r.prod_2025 # LOST_FROM_CATEGORY
                             /\ r.move_type = "switched" }),
            n({ r \in rows : r.prod_2024 = b
                             /\ r.prod_2025 = LOST_FROM_CATEGORY }),
            n({ r \in rows : r.prod_2024 # b /\ r.prod_2024 # NEW_TO_CATEGORY
                             /\ r.prod_2025 = b /\ r.move_type = "switched" }),
            n({ r \in rows : r.prod_2024 = NEW_TO_CATEGORY
                             /\ r.prod_2025 = b })) :
          b \in brands }

\* calculate_brand_summary(df): one row per brand
calculate_brand_summary(rows) ==
    LET brands == ({ r.prod_2024 : r \in rows } \cup { r.prod_2025 : r \in rows })
                     \ SpecialCategories
        n(sel) == SumOver(sel, "customers")
    IN  { SummaryRow(b,
            n({ r \in rows : r.prod_2024 = b /\ r.prod_2025 = b
                             /\ r.move_type = "stayed" }),
            n({ r \in rows : r.prod_2024 = b /\ r.prod_2025 # b
                             /\ r.prod_2025 # LOST_FROM_CATEGORY
                             /\ r.move_type = "switched" }),
            n({ r \in rows : r.prod_2024 = b
                             /\ r.prod_2025 = LOST_FROM_CATEGORY }),
            n({ r \in rows : r.prod_2024 # b /\ r.prod_2024 # NEW_TO_CATEGORY
                             /\ r.prod_2025 = b /\ r.move_type = "switched" }),
            n({ r \in rows : r.prod_2024 = NEW_TO_CATEGORY
                             /\ r.prod_2025 = b })) :
          b \in brands }

\* the position of a name in the order of Python's sorted() on str
SortRank(name) ==
    CASE name = "A" -> 1
      [] name = "A one" -> 2
      [] name = "A two" -> 3
      [] name = "B" -> 4
      [] name = "B one" -> 5
      [] name = OTHERS -> 6
      [] name = Unknown -> 7

RECURSIVE Sorted(_)
\* sorted(names) as a sequence
Sorted(names) ==
    IF names = {} THEN << >>
    ELSE LET least == CHOOSE n \in names :
                         \A m \in names : SortRank(n) <= SortRank(m)
         IN  <<least>> \o Sorted(names \ {least})

\* the DataFrame calculate_brand_summary returns: its rows in the order of
\* brands = sorted(...)
SummaryFrame(rows) ==
    LET summary == calculate_brand_summary(rows)
        brands == Sorted({ s.Brand : s \in summary })
    IN  [i \in 1..Len(brands) |->
            CHOOSE s \in summary : s.Brand = brands[i]]

\* summary_df[summary_df[item_label] != 'OTHERS'] when brands are selected
WithoutOthers(frame, brands) ==
    IF brands # {} /\ Len(frame) > 0
    THEN SelectSeq(frame, LAMBDA s : s.Brand # OTHERS)
    ELSE frame

RECURSIVE ColumnSum(_, _)
\* frame[col].sum()
ColumnSum(frame, col) ==
    IF frame = << >> THEN 0
    ELSE Head(frame)[col] + ColumnSum(Tail(frame), col)

RECURSIVE IdxMax_last(_, _, _)
\* idxmax keeping the last of several greatest values
IdxMax_last(frame, i, best) ==
    IF i > Len(frame) THEN best
    ELSE IF frame[i].Net_Movement >= frame[best].Net_Movement
         THEN IdxMax_last(frame, i + 1, i)
    ELSE IdxMax_last(frame, i + 1, best)

RECURSIVE IdxMax(_, _, _)
\* frame['Net_Movement'].idxmax(), scanning from row i with the row best
\* in hand: the first of several greatest values is kept
IdxMax(frame, i, best) ==
    IF i > Len(frame) THEN best
    ELSE IF frame[i].Net_Movement > frame[best].Net_Movement
         THEN IdxMax(frame, i + 1, i)
    ELSE IdxMax(frame, i + 1, best)

RECURSIVE IdxMin(_, _, _)
\* frame['Net_Movement'].idxmin(): the first of several least values
IdxMin(frame, i, best) ==
    IF i > Len(frame) THEN best
    ELSE IF frame[i].Net_Movement < frame[best].Net_Movement
         THEN IdxMin(frame, i + 1, i)
    ELSE IdxMin(frame, i + 1, best)

\* the float n / d * 100 kept as an exact fraction num / den
PercentRatio(n, d) == [num |-> n * 100, den |-> d]

\* the empty dict
EmptyDict == [k \in {} |-> 0]

\* calculate_executive_kpis with the churn rate counting Gone only
calculate_executive_kpis_goneOnly(summary_df, summary_df_full) ==
    IF Len(summary_df) = 0 THEN EmptyDict
    ELSE
    LET total_movement == ColumnSum(summary_df, "Total_2024")
        winners == SelectSeq(summary_df_full, LAMBDA s : s.Net_Movement > 0)
        biggest_winner == winners[IdxMax(winners, 1, 1)]
        biggest_loser == summary_df_full[IdxMin(summary_df_full, 1, 1)]
        total_gone == ColumnSum(summary_df, "Gone")
        total_switch_out == ColumnSum(summary_df, "Switch_Out")
        total_new == ColumnSum(summary_df, "New_Customer")
        total_switch_in == ColumnSum(summary_df, "Switch_In")
    IN  [total_movement |-> total_movement,
         winner_name |-> IF Len(winners) > 0 THEN biggest_winner.Brand
                         ELSE "None",
         winner_val |-> IF Len(winners) > 0 THEN biggest_winner.Net_Movement
                        ELSE 0,
         loser_name |-> IF Len(summary_df_full) > 0 THEN biggest_loser.Brand
                        ELSE "None",
         loser_val |-> IF Len(summary_df_full) > 0
                       THEN biggest_loser.Net_Movement ELSE 0,
         churn_rate |-> IF total_movement > 0
                        THEN PercentRatio(total_gone, total_movement)
                        ELSE PercentRatio(0, 1),
         net_category_movement |-> (total_new + total_switch_in)
                                      - (total_switch_out + total_gone),
         total_new |-> total_new,
         total_gone |-> total_gone]

\* calculate_executive_kpis(summary_df, summary_df_full)
calculate_executive_kpis(summary_df, summary_df_full) ==
    IF Len(summary_df) = 0 THEN EmptyDict
    ELSE
    LET \* 1. total customers of Period 1
        total_movement == ColumnSum(summary_df, "Total_2024")
        \* 2. biggest winner: greatest Net_Movement > 0
        winners == SelectSeq(summary_df_full, LAMBDA s : s.Net_Movement > 0)
        biggest_winner == winners[IdxMax(winners, 1, 1)]
        \* 3. biggest loser: least Net_Movement
        biggest_loser == summary_df_full[IdxMin(summary_df_full, 1, 1)]
        \* 4. overall churn rate
        total_gone == ColumnSum(summary_df, "Gone")
        total_switch_out == ColumnSum(summary_df, "Switch_Out")
        \* 5. net movement of the category
        total_new == ColumnSum(summary_df, "New_Customer")
        total_switch_in == ColumnSum(summary_df, "Switch_In")
    IN  [total_movement |-> total_movement,
         winner_name |-> IF Len(winners) > 0 THEN biggest_winner.Brand
                         ELSE "None",
         winner_val |-> IF Len(winners) > 0 THEN biggest_winner.Net_Movement
                        ELSE 0,
         loser_name |-> IF Len(summary_df_full) > 0 THEN biggest_loser.Brand
                        ELSE "None",
         loser_val |-> IF Len(summary_df_full) > 0
                       THEN biggest_loser.Net_Movement ELSE 0,
         churn_rate |-> IF total_movement > 0
                        THEN PercentRatio(total_gone + total_switch_out,
                                          total_movement)
                        ELSE PercentRatio(0, 1),
         net_category_movement |-> (total_new + total_switch_in)
                                      - (total_switch_out + total_gone),
         total_new |-> total_new,
         total_gone |-> total_gone]

\* prepare_heatmap_data(df): the pivot table as its cells, one per pair of
\* an index label and a column label, 0 where no row has the pair
prepare_heatmap_data(rows) ==
    LET index == { DisplayLabel(r.prod_2024) : r \in rows }
        columns == { DisplayLabel(r.prod_2025) : r \in rows }
    IN  { [prod_2024 |-> c[1], prod_2025 |-> c[2],
           customers |-> SumOver({ r \in rows :
                                     /\ DisplayLabel(r.prod_2024) = c[1]
                                     /\ DisplayLabel(r.prod_2025) = c[2] },
                                 "customers")] :
          c \in index \X columns }

\* prepare_heatmap_data: the rows of its argument df after the call.  The
\* labels are replaced in df_display = df.copy().
prepare_heatmap_data_df(rows) ==
    LET arg == Frame("df", rows)
        df_display == Copy(arg)
        written == [df_display EXCEPT !.rows =
                       { [r EXCEPT !.prod_2024 = DisplayLabel(@),
                                   !.prod_2025 = DisplayLabel(@)] : r \in @ }]
    IN  AfterWrite(arg, written)

\* prepare_waterfall_data(df, brand)
prepare_waterfall_data(rows, brand) ==
    LET n(sel) == SumOver(sel, "customers")
        period1_total == n({ r \in rows : r.prod_2024 = brand })
        period2_total == n({ r \in rows : r.prod_2025 = brand })
        new_customers == n({ r \in rows : r.prod_2024 = NEW_TO_CATEGORY
                                          /\ r.prod_2025 = brand })
        switch_in == n({ r \in rows : /\ r.prod_2024 # brand
                                      /\ r.prod_2024 # NEW_TO_CATEGORY
                                      /\ r.prod_2025 = brand
                                      /\ r.move_type = "switched" })
        switch_out == n({ r \in rows : /\ r.prod_2024 = brand
                                       /\ r.prod_2025 # brand
                                       /\ r.prod_2025 # LOST_FROM_CATEGORY
                                       /\ r.move_type = "switched" })
        gone == n({ r \in rows : r.prod_2024 = brand
                                 /\ r.prod_2025 = LOST_FROM_CATEGORY })
    IN  [labels |-> <<"2024 Total", "New Customers", "Switch In",
                      "Switch Out", "Gone", "2025 Total">>,
         values |-> <<period1_total, new_customers, switch_in,
                      0 - switch_out, 0 - gone, period2_total>>,
         measure |-> <<"absolute", "relative", "relative", "relative",
                       "relative", "total">>]

\* df.nlargest(n, 'customers'): every row when the table has at most n
\* rows, else n rows none of which is smaller than a row left out
NLargest(rows, n) ==
    IF Cardinality(rows) <= n THEN rows
    ELSE CHOOSE top \in SUBSET rows :
            /\ Cardinality(top) = n
            /\ \A r \in top, q \in rows \ top : r.customers >= q.customers

\* get_top_flows(df, n): the rows of the result (their order is not kept)
get_top_flows(rows, n) ==
    { [prod_2024 |-> DisplayLabel(r.prod_2024),
       prod_2025 |-> DisplayLabel(r.prod_2025),
       customers |-> r.customers, move_type |-> r.move_type] :
      r \in NLargest(rows, n) }

\* get_top_flows: the rows of its argument df after the call.  The labels
\* are replaced in top, a copy of the table nlargest returns.
get_top_flows_df(rows, n) ==
    LET arg == Frame("df", rows)
        top == Copy(Frame("nlargest", NLargest(rows, n)))
        written == [top EXCEPT !.rows =
                       { [r EXCEPT !.prod_2024 = DisplayLabel(@),
                                   !.prod_2025 = DisplayLabel(@)] : r \in @ }]
    IN  AfterWrite(arg, written)

\* calculate_cohort_metrics dividing without the total_period1 > 0 guard
calculate_cohort_metrics_unguarded(rows) ==
    LET n(sel) == SumOver(sel, "customers")
        total_period1 == n({ r \in rows : r.prod_2024 # NEW_TO_CATEGORY })
        stayed_customers == n({ r \in rows : r.move_type = "stayed" })
        gone_customers == n({ r \in rows :
                                r.prod_2025 = LOST_FROM_CATEGORY })
        switch_out == n({ r \in rows : r.move_type = "switched"
                                       /\ r.prod_2025 # LOST_FROM_CATEGORY })
    IN  [retention_rate |-> PercentRatio(stayed_customers, total_period1),
         churn_rate |-> PercentRatio(gone_customers, total_period1),
         switch_rate |-> PercentRatio(switch_out, total_period1),
         stayed_customers |-> stayed_customers,
         gone_customers |-> gone_customers,
         switch_out_customers |-> switch_out,
         total_base |-> total_period1]

\* calculate_cohort_metrics(df)
calculate_cohort_metrics(rows) ==
    LET n(sel) == SumOver(sel, "customers")
        total_period1 == n({ r \in rows : r.prod_2024 # NEW_TO_CATEGORY })
        stayed_customers == n({ r \in rows : r.move_type = "stayed" })
        gone_customers == n({ r \in rows :
                                r.prod_2025 = LOST_FROM_CATEGORY })
        switch_out == n({ r \in rows : r.move_type = "switched"
                                       /\ r.prod_2025 # LOST_FROM_CATEGORY })
        rate(x) == IF total_period1 > 0 THEN PercentRatio(x, total_period1)
                   ELSE PercentRatio(0, 1)
    IN  [retention_rate |-> rate(stayed_customers),
         churn_rate |-> rate(gone_customers),
         switch_rate |-> rate(switch_out),
         stayed_customers |-> stayed_customers,
         gone_customers |-> gone_customers,
         switch_out_customers |-> switch_out,
         total_base |-> total_period1]

----------------------------------------------------------------------------
(* The CustomType mapping text: build_case_statement (query_builder.py)    *)
(* and parse_barcode_mapping (utils.py).  A text is the sequence of its    *)
(* lines, a line the sequence of its characters.                           *)

MaxLines == 3

\* lines of the mapping text area
LineChoices ==
    { << >>,
      <<" ">>,
      <<"1">>,
      <<"1", ",", "x">>,
      <<"1", ",", "y">>,
      <<"2", ",", "x">>,
      <<"1", "\t", "y">>,
      <<" ", "2", " ", ",", " ", "y", " ">>,
      <<"1", ",", "x", ",", "y">>,
      <<"1", ",">>,
      <<",", "x">> }

IsSpace(c) == c \in {" ", "\t"}

RECURSIVE LStrip(_)
LStrip(s) ==
    IF s = << >> THEN s
    ELSE IF IsSpace(Head(s)) THEN LStrip(Tail(s))
    ELSE s

RECURSIVE RStrip(_)
RStrip(s) ==
    IF s = << >> THEN s
    ELSE IF IsSpace(s[Len(s)]) THEN RStrip(SubSeq(s, 1, Len(s) - 1))
    ELSE s

\* str.strip()
Strip(s) == RStrip(LStrip(s))

\* line.replace('\t', ',')
ReplaceTab(s) == [i \in 1..Len(s) |-> IF s[i] = "\t" THEN "," ELSE s[i]]

\* str.split(',', 1): the parts before and after the first comma, or the
\* string itself when it has no comma
SplitOnce(s) ==
    LET commas == { i \in 1..Len(s) : s[i] = "," }
    IN  IF commas = {} THEN <<s>>
        ELSE LET i == CHOOSE k \in commas : \A j \in commas : k <= j
             IN  <<SubSeq(s, 1, i - 1), SubSeq(s, i + 1, Len(s))>>

\* not mapping_text or not mapping_text.strip()
IsBlankText(text) == \A i \in 1..Len(text) : Strip(text[i]) = << >>

\* the parts of a line: line.strip().replace('\t', ',').split(',', 1),
\* each part stripped
PartsOf(line) ==
    LET parts == SplitOnce(ReplaceTab(Strip(line)))
    IN  [i \in 1..Len(parts) |-> Strip(parts[i])]

\* the return value "pm.Brand"
PmBrand == [kind |-> "pm.Brand", whens |-> << >>]

\* build_case_statement was not called yet
NotBuilt == [kind |-> "none", whens |-> << >>]

RECURSIVE CaseParts(_)
\* case_parts: one WHEN a.Barcode = barcode THEN description per line that
\* is not empty and splits into two parts (quotes are doubled in the SQL
\* literal, which stands for the same string)
CaseParts(text) ==
    IF text = << >> THEN << >>
    ELSE LET line == Strip(Head(text))
         IN  IF line = << >> THEN CaseParts(Tail(text))
             ELSE IF Len(PartsOf(line)) = 2
                  THEN <<PartsOf(line)>> \o CaseParts(Tail(text))
             ELSE CaseParts(Tail(text))

\* build_case_statement(barcode_mapping)
build_case_statement(text) ==
    IF IsBlankText(text) THEN PmBrand
    ELSE IF CaseParts(text) = << >> THEN PmBrand
    ELSE [kind |-> "CASE", whens |-> CaseParts(text)]

\* parse_barcode_mapping was not called yet
NotParsed == [called |-> FALSE, dict |-> << >>]

\* mapping[barcode] = description
DictSet(dict, key, value) ==
    [k \in DOMAIN dict \cup {key} |-> IF k = key THEN value ELSE dict[k]]

\* the dict without entries
NoEntries == [k \in {} |-> << >>]

RECURSIVE ParseLines(_, _)
\* the loop of parse_barcode_mapping over the lines, mapping in hand
ParseLines(text, dict) ==
    IF text = << >> THEN dict
    ELSE LET line == Strip(Head(text))
             parts == PartsOf(line)
         IN  IF line = << >> THEN ParseLines(Tail(text), dict)
             ELSE IF Len(parts) = 2 /\ parts[1] # << >> /\ parts[2] # << >>
                  THEN ParseLines(Tail(text),
                                  DictSet(dict, parts[1], parts[2]))
             ELSE ParseLines(Tail(text), dict)

\* parse_barcode_mapping(mapping_text)
parse_barcode_mapping(text) ==
    IF IsBlankText(text) THEN NoEntries
    ELSE ParseLines(text, NoEntries)

----------------------------------------------------------------------------
(* build_cross_category_query (query_builder.py) over a small sales table *)

\* PCB_PRODUCT_MASTER for the cross-category analysis: the subcategory
\* name "S" exists in the categories Cat1 and Cat2
CrossMaster ==
    [b \in {"k1", "k2", "k3", "k4"} |->
        CASE b = "k1" -> [CategoryName |-> "Cat1", SubCategoryName |-> "S",
                          Brand |-> "A"]
          [] b = "k2" -> [CategoryName |-> "Cat2", SubCategoryName |-> "S",
                          Brand |-> "B"]
          [] b = "k3" -> [CategoryName |-> "Cat2", SubCategoryName |-> "T",
                          Brand |-> "B"]
          [] b = "k4" -> [CategoryName |-> "Cat3", SubCategoryName |-> "U",
                          Brand |-> "C"]]

CrossSalesRows ==
    [CustomerCode : CustomerCodes, Date : Dates, Barcode : DOMAIN CrossMaster,
     TotalSales : {1, 2}]

\* the arguments of build_cross_category_query; the app asks for at least
\* one source and one target category, the subcategory lists are optional;
\* period 1 is date 1 and period 2 is date 2
CrossParamChoices ==
    [source_categories : {{"Cat1"}},
     source_subcategories : {{}, {"S"}},
     target_categories : {{"Cat2"}},
     target_subcategories : {{}, {"T"}},
     primary_threshold : {0, 60}]

DefaultCrossParams ==
    [source_categories |-> {"Cat1"}, source_subcategories |-> {},
     target_categories |-> {"Cat2"}, target_subcategories |-> {},
     primary_threshold |-> 60]

CrossPeriod1 == 1
CrossPeriod2 == 2

\* all_target_cats: the source categories, then the target categories
all_target_cats(p) == p.source_categories \cup p.target_categories

\* all_target_subcats: the source and the target subcategories
all_target_subcats(p) == p.source_subcategories \cup p.target_subcategories

\* the WHERE of source_period
SourceFilter(p, t) ==
    /\ t.Date = CrossPeriod1
    /\ CrossMaster[t.Barcode].CategoryName \in p.source_categories
    /\ p.source_subcategories # {}
          => CrossMaster[t.Barcode].SubCategoryName \in p.source_subcategories
    /\ t.CustomerCode # "0"

\* the WHERE of target_period, given the source customers
TargetFilter(p, t, customers) ==
    /\ t.Date = CrossPeriod2
    /\ CrossMaster[t.Barcode].CategoryName \in all_target_cats(p)
    /\ all_target_subcats(p) # {}
          => CrossMaster[t.Barcode].SubCategoryName \in all_target_subcats(p)
    /\ t.CustomerCode \in customers
    /\ t.CustomerCode # "0"

\* SELECT CustomerCode, CategoryName, SubCategoryName, Brand, SUM(sales)
\* ... GROUP BY 1, 2, 3, 4 with the share of the customer's sales
PeriodWithShare(rows) ==
    LET key(t) == <<t.CustomerCode, CrossMaster[t.Barcode].CategoryName,
                    CrossMaster[t.Barcode].SubCategoryName,
                    CrossMaster[t.Barcode].Brand>>
        grp(k) == { t \in rows : key(t) = k }
        part(k) == { t \in rows : t.CustomerCode = k[1] }
    IN  { [CustomerCode |-> k[1], CategoryName |-> k[2],
           SubCategoryName |-> k[3], Brand |-> k[4],
           sales |-> SumOver(grp(k), "TotalSales"),
           share |-> SafeDivide(SumOver(grp(k), "TotalSales"),
                                SumOver(part(k), "TotalSales"))] :
          k \in { key(t) : t \in rows } }

source_with_share(p, table) ==
    PeriodWithShare({ t \in table : SourceFilter(p, t) })

target_with_share(p, table, customers) ==
    PeriodWithShare({ t \in table : TargetFilter(p, t, customers) })

\* ORDER BY CASE WHEN share >= PRIMARY_THRESHOLD THEN 1 ELSE 0 END DESC,
\* sales DESC
CrossSortsBefore(p, g1, g2) ==
    LET f1 == IF AtThreshold(p, g1.share) THEN 1 ELSE 0
        f2 == IF AtThreshold(p, g2.share) THEN 1 ELSE 0
    IN  \/ f1 > f2
        \/ f1 = f2 /\ g1.sales > g2.sales

\* QUALIFY ROW_NUMBER() OVER (PARTITION BY CustomerCode ...) = 1: every
\* table the CTE may produce (the order of tied rows is not determined)
CrossPrimary(p, shares) ==
    LET first(c) == { g \in shares :
                        /\ g.CustomerCode = c
                        /\ \A h \in shares :
                              h.CustomerCode = c => ~CrossSortsBefore(p, h, g) }
        customers == { g.CustomerCode : g \in shares }
    IN  { P \in SUBSET UNION { first(c) : c \in customers } :
            \A c \in customers :
                Cardinality({ g \in P : g.CustomerCode = c }) = 1 }

source_primary(p, table) == CrossPrimary(p, source_with_share(p, table))

\* source_customers
source_customers(sp) == { s.CustomerCode : s \in sp }

target_primary(p, table, sp) ==
    CrossPrimary(p, target_with_share(p, table, source_customers(sp)))

GONE == "GONE"
EmptyString == ""

\* the move_type CASE of customer_flow; matches holds the joined row of
\* target_primary, if any
CrossMoveType(s, matches) ==
    IF matches = {} THEN "gone"
    ELSE LET t == CHOOSE x \in matches : TRUE
         IN  IF s.SubCategoryName = t.SubCategoryName
             THEN "stayed" ELSE "switched"

\* customer_flow: source_primary s LEFT JOIN target_primary t
cross_customer_flow(sp, tp) ==
    { LET matches == { t \in tp : t.CustomerCode = s.CustomerCode }
          t == CHOOSE x \in matches : TRUE
      IN  [CustomerCode |-> s.CustomerCode,
           source_cat |-> s.CategoryName,
           source_subcat |-> s.SubCategoryName,
           source_brand |-> s.Brand,
           target_cat |-> IF matches = {} THEN GONE ELSE t.CategoryName,
           target_subcat |-> IF matches = {} THEN EmptyString
                             ELSE t.SubCategoryName,
           target_brand |-> IF matches = {} THEN EmptyString ELSE t.Brand,
           move_type |-> CrossMoveType(s, matches)] :
      s \in sp }

\* CONCAT(cat, CASE WHEN subcat IS NOT NULL AND subcat != '' THEN
\* CONCAT('-', subcat) ELSE '' END), as the sequence of its parts
CatLabel(cat, subcat) ==
    IF subcat # EmptyString THEN <<cat, "-", subcat>> ELSE <<cat>>

\* the target_label CASE of the final SELECT
TargetLabel(r) ==
    IF r.move_type = "stayed"
    THEN <<"STAYED (">> \o CatLabel(r.source_cat, r.source_subcat) \o <<")">>
    ELSE IF r.move_type = "gone" THEN <<GONE>>
    ELSE CatLabel(r.target_cat, r.target_subcat)

\* flow_summary (GROUP BY 1..6, COUNT(DISTINCT CustomerCode)) and the
\* final SELECT with its two labels
cross_flow_summary(flow) ==
    LET key(f) == <<f.source_cat, f.source_subcat, f.target_cat,
                    f.target_subcat, f.target_brand, f.move_type>>
    IN  { [source_cat |-> k[1], source_subcat |-> k[2],
           source_label |-> CatLabel(k[1], k[2]),
           target_cat |-> k[3], target_subcat |-> k[4],
           target_brand |-> k[5],
           target_label |-> TargetLabel([move_type |-> k[6],
                                         source_cat |-> k[1],
                                         source_subcat |-> k[2],
                                         target_cat |-> k[3],
                                         target_subcat |-> k[4]]),
           move_type |-> k[6],
           customers |-> Cardinality({ f.CustomerCode :
                                         f \in { g \in flow : key(g) = k } })] :
          k \in { key(f) : f \in flow } }

----------------------------------------------------------------------------
(* app.py as a script rerun over st.session_state: the login gate          *)
(* (modules/auth.py), the analysis mode selector and the result blocks.    *)
(* A stored result is represented by the mode it was computed in.          *)

\* st.secrets["users"], in the order of the configuration; the third user
\* has no role, the fourth an empty password
Users ==
    << [password |-> "admin1234", role |-> "admin"],
       [password |-> "PCB25", role |-> "user"],
       [password |-> "guest", role |-> Null],
       [password |-> "", role |-> "admin"] >>

\* what is typed into the password field
Passwords == {"", "admin1234", "PCB25", "guest", "wrong"}

BrandProductSwitch == "Brand/Product Switch"
CrossCategorySwitch == "Cross-Category Switch"
SalesAnalysis == "Sales Analysis (Testing)"
AnalysisModes == {BrandProductSwitch, CrossCategorySwitch, SalesAnalysis}

\* previous_analysis_mode = None
None == "None"

\* keys_to_clear
keys_to_clear ==
    {"results_df", "cross_category_df", "sales_analysis_df", "gb_processed",
     "cross_category_gb_processed", "sales_gb_processed"}

\* a stored query result: the mode it was computed in and whether it has
\* rows; NoResult stands for a key that is not in the session state
NoResult == [mode |-> "", rows |-> FALSE]

\* the session state of a new browser session
EmptySession ==
    [keys |-> {}, role |-> "",
     query_executed |-> FALSE, cross_category_executed |-> FALSE,
     sales_analysis_executed |-> FALSE, previous_analysis_mode |-> None,
     results_df |-> NoResult, cross_category_df |-> NoResult]

\* what a rerun rendered: the page, the result block, the selected mode,
\* the mode the shown result was computed in, and the keys and flags as
\* they were when the script reached the result blocks
Rendering(page, block, mode, computed_in, st) ==
    [page |-> page, block |-> block, mode |-> mode,
     computed_in |-> computed_in,
     keys_at_blocks |-> st.keys,
     flags_at_blocks |-> { f \in {"query_executed", "cross_category_executed",
                                  "sales_analysis_executed"} : st[f] }]

NothingRendered == Rendering("none", "none", "", "", EmptySession)

\* the browser event that started the last rerun
NoEvent ==
    [kind |-> "none", password |-> "", analysis_mode |-> "",
     run_analysis |-> FALSE, mode_changed |-> FALSE, cleared |-> {}]

RECURSIVE authenticate_from(_, _)
\* for username, user_data in users.items(): the first user whose password
\* is the given one decides the role (default 'user')
authenticate_from(i, password) ==
    IF i > Len(Users) THEN [success |-> FALSE, role |-> Null]
    ELSE IF Users[i].password = password
         THEN [success |-> TRUE,
               role |-> IF Users[i].role = Null THEN "user" ELSE Users[i].role]
    ELSE authenticate_from(i + 1, password)

\* authenticate ignoring the roles of the configuration
authenticate_allAdmin(password) ==
    IF \E i \in 1..Len(Users) : Users[i].password = password
    THEN [success |-> TRUE, role |-> "admin"]
    ELSE [success |-> FALSE, role |-> Null]

\* auth.authenticate(password)
authenticate(password) == authenticate_from(1, password)

\* auth.is_authenticated()
is_authenticated(st) == "authenticated" \in st.keys

\* auth.is_admin()
is_admin(st) == "role" \in st.keys /\ st.role = "admin"

\* the login form of show_login_page: if submit: if password: ...
login_form(st, password) ==
    IF password # "" /\ authenticate(password).success
    THEN [st EXCEPT !.keys = @ \cup {"authenticated", "role"},
                    !.role = authenticate(password).role]
    ELSE st

\* auth.logout(): both keys are deleted
logout(st) ==
    [st EXCEPT !.keys = @ \ {"authenticated", "role"}, !.role = ""]

\* if 'query_executed' not in st.session_state: ... = False, and so on
InitFlags(st) ==
    [st EXCEPT
       !.keys = @ \cup {"query_executed", "cross_category_executed",
                        "sales_analysis_executed", "previous_analysis_mode"},
       !.query_executed = IF "query_executed" \in st.keys THEN @ ELSE FALSE,
       !.cross_category_executed =
           IF "cross_category_executed" \in st.keys THEN @ ELSE FALSE,
       !.sales_analysis_executed =
           IF "sales_analysis_executed" \in st.keys THEN @ ELSE FALSE,
       !.previous_analysis_mode =
           IF "previous_analysis_mode" \in st.keys THEN @ ELSE None]

\* the mode-change block that deletes the stored results and keeps the
\* execution flags
ModeChange_keepFlags(st, analysis_mode) ==
    IF st.previous_analysis_mode # analysis_mode
    THEN IF st.previous_analysis_mode # None
         THEN [st EXCEPT !.keys = @ \ keys_to_clear,
                         !.results_df = NoResult,
                         !.cross_category_df = NoResult,
                         !.previous_analysis_mode = analysis_mode]
         ELSE [st EXCEPT !.previous_analysis_mode = analysis_mode]
    ELSE st

\* if previous_analysis_mode != analysis_mode: clear the stored results and
\* reset the execution flags
ModeChange(st, analysis_mode) ==
    IF st.previous_analysis_mode # analysis_mode
    THEN IF st.previous_analysis_mode # None
         THEN [st EXCEPT !.keys = @ \ keys_to_clear,
                         !.results_df = NoResult,
                         !.cross_category_df = NoResult,
                         !.query_executed = FALSE,
                         !.cross_category_executed = FALSE,
                         !.sales_analysis_executed = FALSE,
                         !.previous_analysis_mode = analysis_mode]
         ELSE [st EXCEPT !.previous_analysis_mode = analysis_mode]
    ELSE st

\* the inputs of one rerun: the admin page radio, the mode radio, the Run
\* Analysis button, whether the required categories are selected, and what
\* execute_query does ("rows", "empty", or "raises")
RerunInputs ==
    [admin_page : {"analysis", "dashboard"}, analysis_mode : AnalysisModes,
     run_analysis : BOOLEAN, valid : BOOLEAN,
     outcome : {"rows", "empty", "raises"}]

\* the tail of the Cross-Category block: the stored result is shown
ShowCross(st, at, in) ==
    IF "cross_category_df" \notin st.keys \/ ~st.cross_category_df.rows
    THEN [state |-> st,
          rendered |-> Rendering("analysis", "no_data", in.analysis_mode, "", at)]
    ELSE [state |-> st,
          rendered |-> Rendering("analysis", "cross_results", in.analysis_mode,
                                 st.cross_category_df.mode, at)]

\* the tail of the Brand/Product block: st.session_state.results_df is
\* read (an AttributeError when the key is missing) and shown
ShowSwitch(st, at, in) ==
    IF "results_df" \notin st.keys
    THEN [state |-> st,
          rendered |-> Rendering("analysis", "error", in.analysis_mode, "", at)]
    ELSE IF ~st.results_df.rows
    THEN [state |-> st,
          rendered |-> Rendering("analysis", "no_data", in.analysis_mode, "", at)]
    ELSE [state |-> st,
          rendered |-> Rendering("analysis", "switch_results", in.analysis_mode,
                                 st.results_df.mode, at)]

\* if run_analysis or st.session_state.query_executed: (Brand/Product and
\* Sales Analysis)
BrandBlock(st, at, in) ==
    IF in.run_analysis \/ st.query_executed
    THEN IF in.run_analysis
         THEN IF ~in.valid
              THEN [state |-> st,
                    rendered |-> Rendering("analysis", "validation",
                                           in.analysis_mode, "", at)]
              ELSE IF in.outcome = "raises"
              THEN [state |-> st,
                    rendered |-> Rendering("analysis", "error",
                                           in.analysis_mode, "", at)]
              ELSE ShowSwitch(
                     [st EXCEPT !.keys = @ \cup {"results_df", "gb_processed"},
                                !.results_df = [mode |-> in.analysis_mode,
                                                rows |-> in.outcome = "rows"],
                                !.query_executed = TRUE],
                     at, in)
         ELSE ShowSwitch(st, at, in)
    ELSE [state |-> st,
          rendered |-> Rendering("analysis", "none", in.analysis_mode, "", at)]

\* if analysis_mode == "Cross-Category Switch": ... st.stop(); a rerun
\* that does not enter the block goes on to the Brand/Product block
ResultBlocks(st, in) ==
    IF in.analysis_mode = CrossCategorySwitch
       /\ (in.run_analysis \/ st.cross_category_executed)
    THEN IF in.run_analysis
         THEN IF ~in.valid
              THEN [state |-> st,
                    rendered |-> Rendering("analysis", "validation",
                                           in.analysis_mode, "", st)]
              ELSE IF in.outcome = "raises"
              THEN [state |-> st,
                    rendered |-> Rendering("analysis", "error",
                                           in.analysis_mode, "", st)]
              ELSE ShowCross(
                     [st EXCEPT !.keys = @ \cup {"cross_category_df",
                                                 "cross_category_gb_processed"},
                                !.cross_category_df =
                                    [mode |-> in.analysis_mode,
                                     rows |-> in.outcome = "rows"],
                                !.cross_category_executed = TRUE],
                     st, in)
         ELSE ShowCross(st, st, in)
    ELSE BrandBlock(st, st, in)

\* one run of the script of app.py on the session state st
Script(st, in) ==
    IF ~is_authenticated(st)
    THEN [state |-> st, rendered |-> Rendering("login", "none", "", "", st)]
    ELSE IF is_admin(st) /\ in.admin_page = "dashboard"
    THEN [state |-> st,
          rendered |-> Rendering("dashboard", "none", "", "", st)]
    ELSE ResultBlocks(ModeChange(InitFlags(st), in.analysis_mode), in)

\* the rerun after st.rerun(): no button is pressed
AfterRerun(in) == [in EXCEPT !.run_analysis = FALSE]

----------------------------------------------------------------------------
(* modules/tracking.py: the usage database and log_event.  A Python value  *)
(* is a record of its type and its text, a dict the sequence of its        *)
(* (key, value) pairs, a JSON text the sequence of its tokens.             *)

PyStr(s) == [t |-> "str", v |-> s]
PyInt(numeral) == [t |-> "int", v |-> numeral]

\* the event_data dicts handed to log_event: empty, string keys, an int key
EventDataChoices ==
    { << >>,
      << <<PyStr("action"), PyStr("click")>> >>,
      << <<PyStr("action"), PyStr("click")>>, <<PyStr("count"), PyInt("2")>> >>,
      << <<PyInt("1"), PyStr("click")>> >> }

SessionIds == {"s1", "s2"}
EventTypes == {"query", "export"}

Token(kind, text) == [t |-> kind, v |-> text]

\* a dict key in JSON: always a string, an int key by its numeral
KeyToken(k) == Token("string", k.v)

\* a value in JSON: a string or a number
ValueToken(x) == IF x.t = "str" THEN Token("string", x.v) ELSE Token("number", x.v)

RECURSIVE Members(_, _)
\* the members of the object from pair i on, separated by commas
Members(d, i) ==
    IF i > Len(d) THEN << >>
    ELSE (IF i > 1 THEN <<Token(",", "")>> ELSE << >>)
            \o <<KeyToken(d[i][1]), Token(":", ""), ValueToken(d[i][2])>>
            \o Members(d, i + 1)

\* json.dumps(d)
json_dumps(d) == <<Token("{", "")>> \o Members(d, 1) \o <<Token("}", "")>>

\* d[key] = value on a dict
DictPut(d, key, value) ==
    IF \E i \in 1..Len(d) : d[i][1] = key
    THEN [i \in 1..Len(d) |-> IF d[i][1] = key THEN <<key, value>> ELSE d[i]]
    ELSE Append(d, <<key, value>>)

\* the Python value of a JSON value token
FromToken(tok) == IF tok.t = "string" THEN PyStr(tok.v) ELSE PyInt(tok.v)

RECURSIVE ParseMembers(_, _, _)
\* the object read from token i on, into the dict d
ParseMembers(text, i, d) ==
    IF i + 2 > Len(text) THEN d
    ELSE ParseMembers(text, i + 4,
                      DictPut(d, PyStr(text[i].v), FromToken(text[i + 2])))

\* json.loads(text) of an object
json_loads(text) == ParseMembers(text, 2, << >>)

\* a == b on dicts: the same keys with the same values
DictEq(a, b) ==
    { a[i] : i \in 1..Len(a) } = { b[i] : i \in 1..Len(b) }

\* a value of the TEXT column event_data: NULL or a text
SqlNull == [isnull |-> TRUE, text |-> << >>]
SqlText(text) == [isnull |-> FALSE, text |-> text]

\* json.dumps(event_data) if event_data else None
EventDataColumn(event_data) ==
    IF event_data # << >> THEN SqlText(json_dumps(event_data)) ELSE SqlNull

\* the database file before init_db
NoDatabase == [initialised |-> FALSE, sessions |-> {}, events |-> << >>]

\* no call of log_event yet
NoLogCall ==
    [called |-> FALSE, session_id |-> "", event_type |-> "",
     event_data |-> << >>, written |-> FALSE, raised |-> FALSE,
     events_before |-> << >>]

----------------------------------------------------------------------------
(* The analysis run *)

NoCall == [fn |-> "none", brands |-> {}, mode |-> "", lookup |-> NoLookup]

Init ==
    /\ sales = {}
    /\ params = DefaultParams
    /\ profiles = {}
    /\ results_df = {}
    /\ query_executed = FALSE
    /\ view_mode = "Brand"
    /\ df_working = {}
    /\ df = {}
    /\ call = NoCall
    /\ out = {}
    /\ mapping_text = << >>
    /\ case_statement = NotBuilt
    /\ parsed_mapping = NotParsed
    /\ cross_sales = {}
    /\ cross_params = DefaultCrossParams
    /\ cross_flow = {}
    /\ cross_category_df = {}
    /\ cross_category_executed = FALSE
    /\ session_state = EmptySession
    /\ rendered = NothingRendered
    /\ event = NoEvent
    /\ tracking_db = NoDatabase
    /\ log_call = NoLogCall

\* a sale is written to the sales table before the analysis is run
RecordSale(t) ==
    /\ ~query_executed
    /\ Cardinality(sales) < MaxSales
    /\ t \notin sales
    /\ sales' = sales \cup {t}
    /\ UNCHANGED <<params, profiles, results_df, query_executed, view_mode,
                   df_working>>
    /\ UNCHANGED viewVars
    /\ UNCHANGED restVars

\* "Run Analysis": build_switching_query(p) is executed and the page is
\* rendered for the selected view level.  A run replaces every result of an
\* earlier run and depends on nothing but the sales table and p, so a
\* second run reaches no state the first run cannot reach; one run per
\* sales table is followed.
RunQuery(p) ==
    /\ ~query_executed
    /\ \E prim \in primary_identification(p, sales) :
          /\ profiles' = prim
          /\ results_df' = classify(customer_flow(prim))
    /\ params' = p
    /\ query_executed' = TRUE
    /\ df_working' = IF IsCustomMode(p) THEN results_df'
                   ELSE Working(results_df', view_mode)
    /\ UNCHANGED <<sales, view_mode>>
    /\ UNCHANGED viewVars
    /\ UNCHANGED restVars

\* the View Level radio (shown outside the custom barcode mode) is
\* switched and the page is rendered again
SelectView(mode) ==
    /\ query_executed
    /\ ~IsCustomMode(params)
    /\ mode # view_mode
    /\ view_mode' = mode
    /\ df_working' = Working(results_df, mode)
    /\ UNCHANGED <<sales, params, profiles, results_df, query_executed>>
    /\ UNCHANGED viewVars
    /\ UNCHANGED restVars

Next ==
    \/ \E t \in SalesRows : RecordSale(t)
    \/ \E p \in ParamChoices : RunQuery(p)
    \/ \E mode \in {"Brand", "Product"} : SelectView(mode)

Spec == Init /\ [][Next]_vars

\* the analysis with the default sidebar but for the threshold, over sales
\* of a catalog with two products of one brand
CatalogParams ==
    { [DefaultParams EXCEPT !.primary_threshold = t] : t \in Thresholds }

NextCatalog ==
    \/ \E t \in CatalogSalesRows : RecordSale(t)
    \/ \E p \in CatalogParams : RunQuery(p)
    \/ \E mode \in {"Brand", "Product"} : SelectView(mode)

SpecCatalog == Init /\ [][NextCatalog]_vars

----------------------------------------------------------------------------
(* The view and summary functions applied to a flow table *)

\* a row of the classified flow table is loaded
LoadRow(r) ==
    /\ call = NoCall
    /\ Cardinality(df) < MaxRows
    /\ r \notin df
    /\ df' = df \cup {r}
    /\ UNCHANGED <<call, out>>
    /\ UNCHANGED queryVars
    /\ UNCHANGED restVars

\* df_display = filter_dataframe_by_brands(df, brands, mode)
FilterByBrands(brands, mode) ==
    /\ call = NoCall
    /\ call' = [fn |-> "filter_dataframe_by_brands", brands |-> brands,
                mode |-> mode, lookup |-> NoLookup]
    /\ out' = filter_dataframe_by_brands(df, brands, mode)
    /\ df' = filter_dataframe_by_brands_df(df, brands, mode)
    /\ UNCHANGED queryVars
    /\ UNCHANGED restVars

\* aggregate_to_brand_level(df, lookup)
AggregateToBrandLevel(lookup) ==
    /\ call = NoCall
    /\ call' = [fn |-> "aggregate_to_brand_level", brands |-> {},
                mode |-> "", lookup |-> lookup]
    /\ out' = aggregate_to_brand_level(df, lookup)
    /\ df' = aggregate_to_brand_level_df(df, lookup)
    /\ UNCHANGED queryVars
    /\ UNCHANGED restVars

\* the table the summary is computed from (app.py): df_display is the
\* working table, or its filtered view when brands are selected
DisplayTable(rows, brands) ==
    IF brands # {} THEN filter_dataframe_by_brands(rows, brands, "filtered")
    ELSE rows

\* the rows of df after df_display was made from it
DisplayTable_df(rows, brands) ==
    IF brands # {} THEN filter_dataframe_by_brands_df(rows, brands, "filtered")
    ELSE rows

\* summary_df = calculate_brand_summary(df_display)
Summarise(brands) ==
    /\ call = NoCall
    /\ call' = [fn |-> "calculate_brand_summary", brands |-> brands,
                mode |-> "filtered", lookup |-> NoLookup]
    /\ out' = calculate_brand_summary(DisplayTable(df, brands))
    /\ df' = DisplayTable_df(df, brands)
    /\ UNCHANGED queryVars
    /\ UNCHANGED restVars

\* the summary table the Executive KPIs are computed from (app.py): the
\* summary of df_display without the OTHERS row when brands are selected
KpiSummary(rows, brands) ==
    WithoutOthers(SummaryFrame(DisplayTable(rows, brands)), brands)

\* kpis = calculate_executive_kpis(summary_df, summary_df)
ExecutiveKpis(brands) ==
    /\ call = NoCall
    /\ call' = [fn |-> "calculate_executive_kpis", brands |-> brands,
                mode |-> "filtered", lookup |-> NoLookup]
    /\ out' = calculate_executive_kpis(KpiSummary(df, brands),
                                       KpiSummary(df, brands))
    /\ df' = DisplayTable_df(df, brands)
    /\ UNCHANGED queryVars
    /\ UNCHANGED restVars

\* n of get_top_flows(df_display, n=10)
TopN == 10

\* the focus brand of the waterfall chart
FocusBrands == {"A one"}

\* prepare_heatmap_data(df)
PrepareHeatmap ==
    /\ call = NoCall
    /\ call' = [fn |-> "prepare_heatmap_data", brands |-> {}, mode |-> "",
                lookup |-> NoLookup]
    /\ out' = prepare_heatmap_data(df)
    /\ df' = prepare_heatmap_data_df(df)
    /\ UNCHANGED queryVars
    /\ UNCHANGED restVars

\* prepare_waterfall_data(df, brand): the function reads df only
PrepareWaterfall(brand) ==
    /\ call = NoCall
    /\ call' = [fn |-> "prepare_waterfall_data", brands |-> {brand},
                mode |-> "", lookup |-> NoLookup]
    /\ out' = prepare_waterfall_data(df, brand)
    /\ UNCHANGED df
    /\ UNCHANGED queryVars
    /\ UNCHANGED restVars

\* get_top_flows(df, n=10)
GetTopFlows ==
    /\ call = NoCall
    /\ call' = [fn |-> "get_top_flows", brands |-> {}, mode |-> "",
                lookup |-> NoLookup]
    /\ out' = get_top_flows(df, TopN)
    /\ df' = get_top_flows_df(df, TopN)
    /\ UNCHANGED queryVars
    /\ UNCHANGED restVars

\* calculate_cohort_metrics(df_display): the function reads df_display only
CohortMetrics(brands) ==
    /\ call = NoCall
    /\ call' = [fn |-> "calculate_cohort_metrics", brands |-> brands,
                mode |-> "filtered", lookup |-> NoLookup]
    /\ out' = calculate_cohort_metrics(DisplayTable(df, brands))
    /\ df' = DisplayTable_df(df, brands)
    /\ UNCHANGED queryVars
    /\ UNCHANGED restVars

NextView ==
    \/ \E r \in FlowRows : LoadRow(r)
    \/ \E brands \in SelectionChoices, mode \in {"filtered", "full"} :
          FilterByBrands(brands, mode)
    \/ \E lookup \in LookupChoices : AggregateToBrandLevel(lookup)
    \/ \E brands \in {{}, {"A one"}} : Summarise(brands)
    \/ \E brands \in {{}, {"A one"}} : ExecutiveKpis(brands)
    \/ PrepareHeatmap
    \/ \E brand \in FocusBrands : PrepareWaterfall(brand)
    \/ GetTopFlows
    \/ \E brands \in {{}, {"A one"}} : CohortMetrics(brands)

SpecView == Init /\ [][NextView]_vars

----------------------------------------------------------------------------
(* The mapping text is typed, turned into a CASE and parsed *)

\* a line is typed into the mapping text area
TypeLine(line) ==
    /\ case_statement = NotBuilt
    /\ ~parsed_mapping.called
    /\ Len(mapping_text) < MaxLines
    /\ mapping_text' = Append(mapping_text, line)
    /\ UNCHANGED <<case_statement, parsed_mapping>>
    /\ UNCHANGED outsideMapping

\* target_item_expr = build_case_statement(barcode_mapping)
BuildCaseStatement ==
    /\ case_statement = NotBuilt
    /\ case_statement' = build_case_statement(mapping_text)
    /\ UNCHANGED <<mapping_text, parsed_mapping>>
    /\ UNCHANGED outsideMapping

\* parse_barcode_mapping(mapping_text)
ParseBarcodeMapping ==
    /\ ~parsed_mapping.called
    /\ parsed_mapping' = [called |-> TRUE,
                          dict |-> parse_barcode_mapping(mapping_text)]
    /\ UNCHANGED <<mapping_text, case_statement>>
    /\ UNCHANGED outsideMapping

NextMapping ==
    \/ \E line \in LineChoices : TypeLine(line)
    \/ BuildCaseStatement
    \/ ParseBarcodeMapping

SpecMapping == Init /\ [][NextMapping]_vars

----------------------------------------------------------------------------
(* The cross-category run *)

\* a sale is written to the sales table before the cross-category run
RecordCrossSale(t) ==
    /\ ~cross_category_executed
    /\ Cardinality(cross_sales) < MaxCrossSales
    /\ t \notin cross_sales
    /\ cross_sales' = cross_sales \cup {t}
    /\ UNCHANGED <<cross_params, cross_flow, cross_category_df,
                   cross_category_executed>>
    /\ UNCHANGED outsideCross

\* "Run Analysis" in the Cross-Category Switch mode: the query is built
\* for p and executed; one run per sales table is followed
RunCrossQuery(p) ==
    /\ ~cross_category_executed
    /\ \E sp \in source_primary(p, cross_sales) :
         \E tp \in target_primary(p, cross_sales, sp) :
            /\ cross_flow' = cross_customer_flow(sp, tp)
            /\ cross_category_df' = cross_flow_summary(cross_flow')
    /\ cross_params' = p
    /\ cross_category_executed' = TRUE
    /\ UNCHANGED cross_sales
    /\ UNCHANGED outsideCross

NextCross ==
    \/ \E t \in CrossSalesRows : RecordCrossSale(t)
    \/ \E p \in CrossParamChoices : RunCrossQuery(p)

SpecCross == Init /\ [][NextCross]_vars

----------------------------------------------------------------------------
(* The browser session: login, reruns of the script, logout *)

\* "Sign In" on the login page; when access is granted the script is run
\* again (st.rerun()) with the widgets' values in
SubmitLogin(password, in) ==
    /\ rendered.page \in {"none", "login"}
    /\ ~is_authenticated(session_state)
    /\ LET st == login_form(session_state, password)
           run == Script(st, AfterRerun(in))
       IN  /\ session_state' = run.state
           /\ rendered' = run.rendered
           /\ event' = [kind |-> "login", password |-> password,
                        analysis_mode |-> in.analysis_mode,
                        run_analysis |-> FALSE,
                        mode_changed |-> FALSE, cleared |-> {}]
    /\ UNCHANGED outsideSession

\* a widget of the page is used and the script runs again
Rerun(in) ==
    /\ is_authenticated(session_state)
    /\ LET run == Script(session_state, in)
           before == InitFlags(session_state)
           reached == run.rendered.page = "analysis"
       IN  /\ session_state' = run.state
           /\ rendered' = run.rendered
           /\ event' = [kind |-> "rerun", password |-> "",
                        analysis_mode |-> in.analysis_mode,
                        run_analysis |-> in.run_analysis,
                        mode_changed |->
                            /\ reached
                            /\ before.previous_analysis_mode # None
                            /\ before.previous_analysis_mode # in.analysis_mode,
                        cleared |->
                            IF reached
                               /\ before.previous_analysis_mode # None
                               /\ before.previous_analysis_mode # in.analysis_mode
                            THEN before.keys \cap keys_to_clear ELSE {}]
    /\ UNCHANGED outsideSession

\* the Logout button of the analysis page: auth.logout() and st.rerun()
Logout(in) ==
    /\ is_authenticated(session_state)
    /\ rendered.page = "analysis"
    /\ LET run == Script(logout(session_state), AfterRerun(in))
       IN  /\ session_state' = run.state
           /\ rendered' = run.rendered
    /\ event' = [kind |-> "logout", password |-> "",
                 analysis_mode |-> "", run_analysis |-> FALSE,
                 mode_changed |-> FALSE, cleared |-> {}]
    /\ UNCHANGED outsideSession

NextSession ==
    \/ \E pw \in Passwords : \E in \in RerunInputs : SubmitLogin(pw, in)
    \/ \E in \in RerunInputs : Rerun(in)
    \/ \E in \in RerunInputs : Logout(in)

SpecSession == Init /\ [][NextSession]_vars

----------------------------------------------------------------------------
(* The usage database is initialised and written *)

\* init_db(): CREATE TABLE IF NOT EXISTS sessions / events
InitDb ==
    /\ ~tracking_db.initialised
    /\ tracking_db' = [tracking_db EXCEPT !.initialised = TRUE]
    /\ UNCHANGED log_call
    /\ UNCHANGED outsideTracking

\* get_or_create_session(): init_db(), then a sessions row is inserted
CreateSession(session_id) ==
    /\ session_id \notin tracking_db.sessions
    /\ tracking_db' = [tracking_db EXCEPT !.initialised = TRUE,
                                          !.sessions = @ \cup {session_id}]
    /\ UNCHANGED log_call
    /\ UNCHANGED outsideTracking

\* log_event(session_id, event_type, event_data): one INSERT and commit
\* inside try / except Exception: pass.  The write fails when the events
\* table does not exist or when sqlite reports an error (io_error).
LogEvent(session_id, event_type, event_data, io_error) ==
    /\ Len(tracking_db.events) < MaxEvents
    /\ LET ok == tracking_db.initialised /\ ~io_error
           row == [id |-> Len(tracking_db.events) + 1,
                   session_id |-> session_id,
                   event_type |-> event_type,
                   event_data |-> EventDataColumn(event_data)]
       IN  /\ tracking_db' =
                 IF ok THEN [tracking_db EXCEPT !.events = Append(@, row)]
                 ELSE tracking_db
           /\ log_call' = [called |-> TRUE, session_id |-> session_id,
                           event_type |-> event_type,
                           event_data |-> event_data,
                           written |-> ok, raised |-> FALSE,
                           events_before |-> tracking_db.events]
    /\ UNCHANGED outsideTracking

NextTracking ==
    \/ InitDb
    \/ \E s \in SessionIds : CreateSession(s)
    \/ \E s \in SessionIds : \E ty \in EventTypes :
         \E d \in EventDataChoices : \E io_error \in BOOLEAN :
            LogEvent(s, ty, d, io_error)

SpecTracking == Init /\ [][NextTracking]_vars

----------------------------------------------------------------------------
(* Claims on the switching query *)

\* t passes the WHERE clause as a transaction of the Before / After period
QualifiesBefore(p, t) ==
    /\ t.CustomerCode # "0"
    /\ InPeriod1(p, t.Date)
    /\ p.brands # {} => ProductMaster[t.Barcode].Brand \in p.brands

QualifiesAfter(p, t) ==
    /\ t.CustomerCode # "0"
    /\ InPeriod2(p, t.Date)

QualifyingCustomers(p, table) ==
    { t.CustomerCode :
        t \in { s \in table : QualifiesBefore(p, s) \/ QualifiesAfter(p, s) } }

\* C1: the customers of the classified flow table add up to the number of
\* distinct customers (CustomerCode != '0') with a qualifying transaction in
\* the Before or the After period: none counted twice, none omitted.
C1_Conservation ==
    query_executed =>
        SumOver(results_df, "customers")
            = Cardinality(QualifyingCustomers(params, sales))

\* a customer with a profile in both periods is counted once
C1_Witness ==
    /\ query_executed
    /\ \E c \in CustomerCodes :
          /\ \E r \in profiles : r.CustomerCode = c /\ r.Year = "2024"
          /\ \E r \in profiles : r.CustomerCode = c /\ r.Year = "2025"
    /\ SumOver(results_df, "customers") = 1

\* the primary item of customer c in period yr, Null without a profile
ProfileItem(c, yr) ==
    LET rs == { r \in profiles : r.CustomerCode = c /\ r.Year = yr }
    IN  IF rs = {} THEN Null ELSE (CHOOSE r \in rs : TRUE).primary_item

\* the four rules of the flow classifier, first match wins
ExpectedTriple(before, after) ==
    IF before = Null /\ after # Null
        THEN <<NEW_TO_CATEGORY, after, "new_to_category">>
    ELSE IF before # Null /\ after = Null
        THEN <<before, LOST_FROM_CATEGORY, "lost_from_category">>
    ELSE IF before = after
        THEN <<before, after, "stayed">>
    ELSE <<before, after, "switched">>

FlowCustomers == { r.CustomerCode : r \in profiles }

\* C2: every customer of the flow is classified by the first matching rule
\* into exactly one of the four movement types (new_to_category,
\* lost_from_category, stayed - also for MIXED = MIXED -, switched); both
\* profiles are never null and 'unknown' is never emitted.
C2_Classification ==
    query_executed =>
        /\ \A c \in FlowCustomers :
              ProfileItem(c, "2024") # Null \/ ProfileItem(c, "2025") # Null
        /\ \A r \in results_df :
              r.move_type \in {"new_to_category", "lost_from_category",
                               "stayed", "switched"}
        /\ \A c \in FlowCustomers :
              LET t == ExpectedTriple(ProfileItem(c, "2024"),
                                      ProfileItem(c, "2025"))
                  same == { d \in FlowCustomers :
                              ExpectedTriple(ProfileItem(d, "2024"),
                                             ProfileItem(d, "2025")) = t }
                  rows == { r \in results_df :
                              <<r.prod_2024, r.prod_2025, r.move_type>> = t }
              IN  SumOver(rows, "customers") = Cardinality(same)
        /\ \A r \in results_df :
              \E c \in FlowCustomers :
                 <<r.prod_2024, r.prod_2025, r.move_type>>
                    = ExpectedTriple(ProfileItem(c, "2024"),
                                     ProfileItem(c, "2025"))

\* a customer who is MIXED in both periods has stayed
C2_Witness ==
    /\ query_executed
    /\ \E r \in results_df :
          r.prod_2024 = MIXED /\ r.prod_2025 = MIXED /\ r.move_type = "stayed"

\* the customer's period sales of grouping-key value k under p
KeySales(p, table, yr, c, k) ==
    SumOver({ r \in base(p, table) :
                r.Year = yr /\ r.CustomerCode = c /\ r.TargetItem = k },
            "TotalSales")

PeriodSales(p, table, yr, c) ==
    SumOver({ r \in base(p, table) : r.Year = yr /\ r.CustomerCode = c },
            "TotalSales")

KeysOf(p, table, yr, c) ==
    { r.TargetItem :
        r \in { x \in base(p, table) : x.Year = yr /\ x.CustomerCode = c } }

\* the primary item the resolver is specified to give: the key values with
\* the greatest share when that share is >= primary_threshold, else MIXED
SpecifiedPrimary(p, table, yr, c) ==
    LET keys == KeysOf(p, table, yr, c)
        total == PeriodSales(p, table, yr, c)
        best == { k \in keys :
                    \A j \in keys : KeySales(p, table, yr, c, j)
                                       <= KeySales(p, table, yr, c, k) }
        top == { k \in best :
                   /\ total # 0
                   /\ KeySales(p, table, yr, c, k) * 100
                         >= p.primary_threshold * total }
    IN  IF top # {} THEN top ELSE {MIXED}

\* C3: for a customer with a qualifying transaction in a period,
\* primary_item is the grouping-key value with the greatest share of the
\* customer's period sales when that share is >= primary_threshold, and
\* MIXED otherwise; it is null only without a qualifying transaction.
C3_PrimaryItem ==
    query_executed =>
        \A c \in CustomerCodes, yr \in {"2024", "2025"} :
            IF KeysOf(params, sales, yr, c) = {}
            THEN ProfileItem(c, yr) = Null
            ELSE ProfileItem(c, yr) \in SpecifiedPrimary(params, sales, yr, c)

\* C3 with the product name as grouping key (no barcode_mapping)
C3_ProductMode ==
    (query_executed /\ params.barcode_mapping = << >>) =>
        \A c \in CustomerCodes, yr \in {"2024", "2025"} :
            IF KeysOf(params, sales, yr, c) = {}
            THEN ProfileItem(c, yr) = Null
            ELSE ProfileItem(c, yr) \in SpecifiedPrimary(params, sales, yr, c)

----------------------------------------------------------------------------
(* Claims on the view and summary functions *)

Total(rows) == SumOver(rows, "customers")

\* the rows of a table with the given origin, destination and movement type
RowsOf(rows, f, t, m) ==
    { r \in rows : r.prod_2024 = f /\ r.prod_2025 = t /\ r.move_type = m }

MoveTypes == {"new_to_category", "lost_from_category", "stayed", "switched"}

FilteredCall ==
    /\ call.fn = "filter_dataframe_by_brands"
    /\ call.mode = "filtered"
    /\ call.brands # {}

FullCall ==
    /\ call.fn = "filter_dataframe_by_brands"
    /\ call.mode = "full"
    /\ call.brands # {}

\* C4 as stated: the filtered view has the total customer count of its input.
C4_TotalConserved ==
    FilteredCall => Total(out) = Total(df)

\* C4 amended: the filtered view has the customer count of the input rows
\* whose origin is selected or NEW_TO_CATEGORY or whose destination is
\* selected; the customers of all other rows are dropped.
C4_KeptConserved ==
    FilteredCall =>
        Total(out) = Total({ r \in df :
                               \/ r.prod_2024 \in call.brands
                               \/ r.prod_2024 = NEW_TO_CATEGORY
                               \/ r.prod_2025 \in call.brands })

\* a filtered view that keeps some customers and drops others
C4_Witness ==
    /\ FilteredCall
    /\ 0 < Total(out)
    /\ Total(out) < Total(df)

\* C5: filter_dataframe_by_brands applied to its own output with the same
\* selection and mode returns that output (both modes, any selection).
C5_Idempotent ==
    call.fn = "filter_dataframe_by_brands" =>
        filter_dataframe_by_brands(out, call.brands, call.mode) = out

\* a filtered view in which two input rows were summed into one OTHERS row
C5_Witness ==
    /\ FilteredCall
    /\ Cardinality(df) = 2
    /\ \E g \in out :
          /\ OTHERS \in {g.prod_2024, g.prod_2025}
          /\ g.customers = Total(df)

C7_OutputRows ==
    FilteredCall =>
        /\ \A g \in out :
              \/ g.prod_2024 \in call.brands \cup {NEW_TO_CATEGORY}
              \/ /\ g.prod_2024 = OTHERS
                 /\ g.prod_2025 \in call.brands
                 /\ g.customers
                      = Total({ r \in df :
                                  /\ r.prod_2025 = g.prod_2025
                                  /\ r.move_type = g.move_type
                                  /\ r.prod_2024 \notin call.brands
                                  /\ r.prod_2024 # NEW_TO_CATEGORY })
        /\ \A g \in out :
              g.prod_2024 = OTHERS
                 => g.prod_2025 \notin {OTHERS, LOST_FROM_CATEGORY, MIXED}
        /\ \A g, h \in out :
              (g.prod_2024 = h.prod_2024 /\ g.prod_2025 = h.prod_2025
                 /\ g.move_type = h.move_type) => g = h

\* two rows from unselected origins are summed into one OTHERS -> s row
C7_Witness ==
    /\ FilteredCall
    /\ Cardinality(df) = 2
    /\ \E g \in out :
          /\ g.prod_2024 = OTHERS
          /\ g.customers = Total(df)
          /\ \A r \in df : r.prod_2024 \notin call.brands

\* C8: the full view is exactly the input rows with a selected origin, each
\* unchanged; rows of any other origin (NEW_TO_CATEGORY too) are removed and
\* no row is added.
C8_FullView ==
    FullCall =>
        /\ out \subseteq df
        /\ \A r \in out : r.prod_2024 \in call.brands
        /\ \A r \in df : r.prod_2024 \in call.brands => r \in out
        /\ \A r \in df : r.prod_2024 = NEW_TO_CATEGORY => r \notin out

\* a selected origin keeps its unselected destination while a
\* NEW_TO_CATEGORY row is removed
C8_Witness ==
    /\ FullCall
    /\ \E r \in df : r.prod_2024 = NEW_TO_CATEGORY
    /\ \E r \in out : r.prod_2025 \notin call.brands \cup SpecialCategories

\* the catalog brand of a product
CatalogBrand ==
    [i \in Items |-> IF i \in {"A one", "A two"} THEN "A" ELSE "B"]

\* brand_of as specified: sentinels unchanged, a product mapped to its
\* catalog brand, 'Unknown' for a product the given catalog does not hold
brand_of(lookup, x) ==
    IF x \in SpecialCategories THEN x
    ELSE IF DOMAIN lookup = {} THEN CatalogBrand[x]
    ELSE IF x \in DOMAIN lookup THEN lookup[x]
    ELSE Unknown

\* C9: the brand-level rollup is the grouping of the rows by
\* (brand_of(from), brand_of(to), movement type) with summed customers, with
\* or without a product_master_lookup, and keeps the total customer count.
C9_Rollup ==
    call.fn = "aggregate_to_brand_level" =>
        LET key(r) == <<brand_of(call.lookup, r.prod_2024),
                        brand_of(call.lookup, r.prod_2025), r.move_type>>
        IN  /\ out = GroupSum({ <<key(r), r>> : r \in df })
            /\ Total(out) = Total(df)

\* C9 for the rollup without a lookup
C9_NoLookup ==
    (call.fn = "aggregate_to_brand_level" /\ DOMAIN call.lookup = {}) =>
        LET key(r) == <<brand_of(call.lookup, r.prod_2024),
                        brand_of(call.lookup, r.prod_2025), r.move_type>>
        IN  /\ out = GroupSum({ <<key(r), r>> : r \in df })
            /\ Total(out) = Total(df)

\* the counts of entity e as specified for the summary
Stayed(rows, e) == Total(RowsOf(rows, e, e, "stayed"))
SwitchOut(rows, e) ==
    Total({ r \in rows : /\ r.move_type = "switched" /\ r.prod_2024 = e
                         /\ r.prod_2025 \notin {e, LOST_FROM_CATEGORY} })
Gone(rows, e) ==
    Total({ r \in rows : r.prod_2024 = e /\ r.prod_2025 = LOST_FROM_CATEGORY })
SwitchIn(rows, e) ==
    Total({ r \in rows : /\ r.move_type = "switched" /\ r.prod_2025 = e
                         /\ r.prod_2024 \notin {e, NEW_TO_CATEGORY} })
NewCustomer(rows, e) ==
    Total({ r \in rows : r.prod_2024 = NEW_TO_CATEGORY /\ r.prod_2025 = e })

\* C10: the summary has exactly one row per non-sentinel value that is an
\* origin or a destination, and the row of e holds the specified stayed,
\* switch_out, gone, switch_in, new_customer and the totals derived from them.
C10_Summary ==
    call.fn = "calculate_brand_summary" =>
        LET T == DisplayTable(df, call.brands)
            entities == ({ r.prod_2024 : r \in T } \cup { r.prod_2025 : r \in T })
                           \ {NEW_TO_CATEGORY, LOST_FROM_CATEGORY, MIXED}
        IN  /\ { s.Brand : s \in out } = entities
            /\ Cardinality(out) = Cardinality(entities)
            /\ \A s \in out :
                  LET e == s.Brand
                  IN  /\ s.Stayed = Stayed(T, e)
                      /\ s.Switch_Out = SwitchOut(T, e)
                      /\ s.Gone = Gone(T, e)
                      /\ s.Switch_In = SwitchIn(T, e)
                      /\ s.New_Customer = NewCustomer(T, e)
                      /\ s.Total_2024 = s.Stayed + s.Switch_Out + s.Gone
                      /\ s.Total_2025 = s.Stayed + s.Switch_In + s.New_Customer
                      /\ s.Total_In = s.Total_2025
                      /\ s.Total_Out = s.Switch_Out + s.Gone
                      /\ s.Net_Movement = s.Total_In - s.Total_Out

\* an entity with customers who stayed next to a flow from the entity to
\* itself that is not of type stayed
C10_Witness ==
    /\ call.fn = "calculate_brand_summary"
    /\ \E s \in out :
          /\ s.Stayed > 0
          /\ RowsOf(df, s.Brand, s.Brand, "switched") # {}

\* pct (in tenths of a percent) is the ratio x / total in percent rounded
\* to one decimal, and 0 when total is 0
IsPercentOf(pct, x, total) ==
    /\ 0 <= pct /\ pct <= 1000
    /\ total = 0 => pct = 0
    /\ total > 0 =>
          LET d == pct * total - x * 1000
          IN  -total <= 2 * d /\ 2 * d <= total

\* C11: every percentage field of every summary row lies in [0, 100]
\* (0..1000 tenths), is the rounded ratio against its denominator
\* (Stayed_%, Switch_Out_%, Gone_% against the Period 1 total; Switch_In_%,
\* New_Customer_% against total_in), and is exactly 0 when that denominator
\* is 0.
C11_Percentages ==
    call.fn = "calculate_brand_summary" =>
        \A s \in out :
            /\ IsPercentOf(s.Stayed_Pct, s.Stayed, s.Total_2024)
            /\ IsPercentOf(s.Switch_Out_Pct, s.Switch_Out, s.Total_2024)
            /\ IsPercentOf(s.Gone_Pct, s.Gone, s.Total_2024)
            /\ IsPercentOf(s.Switch_In_Pct, s.Switch_In, s.Total_In)
            /\ IsPercentOf(s.New_Customer_Pct, s.New_Customer, s.Total_In)

\* one entity with a rounded third (33.3 %) of its Period 1 customers
\* staying, next to an entity without Period 1 customers whose inflow is
\* all switch-in
C11_Witness ==
    /\ call.fn = "calculate_brand_summary"
    /\ \E s \in out : s.Stayed_Pct = 333 /\ s.Switch_Out_Pct = 667
    /\ \E s \in out :
          /\ s.Total_2024 = 0
          /\ s.Stayed_Pct = 0 /\ s.Switch_Out_Pct = 0 /\ s.Gone_Pct = 0
          /\ s.Switch_In_Pct = 1000

----------------------------------------------------------------------------
(* Claims on the primary-item resolver *)

\* thresholds the slider offers besides those of Thresholds
SliderThresholds == Thresholds \cup {50}

\* the primary items a run of the query with threshold t (all other
\* arguments as in p) may give customer c in period yr
PrimaryItems(p, t, table, yr, c) ==
    LET q == [p EXCEPT !.primary_threshold = t]
    IN  { ProfileOf(q, g, Null).primary_item :
            g \in RowNumberOne(q, cust_item_stats(q, table), yr, c) }

\* the rows of cust_item_stats of one customer-period tie on every column
\* of the ORDER BY
FullyTied(p, table, yr, c) ==
    \E g, h \in cust_item_stats(p, table) :
        /\ g # h
        /\ g.Year = yr /\ h.Year = yr
        /\ g.CustomerCode = c /\ h.CustomerCode = c
        /\ ~SortsBefore(p, g, h) /\ ~SortsBefore(p, h, g)

\* the primary item under a lower and under a higher threshold agree as
\* threshold monotonicity demands
Monotone(lower, higher) ==
    /\ lower = MIXED => higher = MIXED
    /\ higher # MIXED => lower = higher

\* C12: threshold monotonicity.  The run made with params.primary_threshold
\* and any run on the same sales with another threshold t agree: what is
\* MIXED under the lower threshold is MIXED under the higher one, and what is
\* concrete under the higher threshold is the same concrete item under the
\* lower one.
C12_Monotone ==
    query_executed =>
        \A r \in profiles, t \in SliderThresholds :
            \A other \in PrimaryItems(params, t, sales, r.Year,
                                      r.CustomerCode) :
                /\ params.primary_threshold <= t
                      => Monotone(r.primary_item, other)
                /\ t <= params.primary_threshold
                      => Monotone(other, r.primary_item)

\* C12, first half alone: MIXED under the lower threshold is MIXED under
\* the higher threshold.
C12_MixedStaysMixed ==
    query_executed =>
        \A r \in profiles, t \in SliderThresholds :
            \A other \in PrimaryItems(params, t, sales, r.Year,
                                      r.CustomerCode) :
                /\ (params.primary_threshold <= t /\ r.primary_item = MIXED)
                      => other = MIXED
                /\ (t <= params.primary_threshold /\ other = MIXED)
                      => r.primary_item = MIXED

\* C12 for the customer-periods whose rows do not tie on the whole ORDER BY
C12_Untied ==
    query_executed =>
        \A r \in profiles, t \in SliderThresholds :
            ~FullyTied(params, sales, r.Year, r.CustomerCode) =>
                \A other \in PrimaryItems(params, t, sales, r.Year,
                                          r.CustomerCode) :
                    /\ params.primary_threshold <= t
                          => Monotone(r.primary_item, other)
                    /\ t <= params.primary_threshold
                          => Monotone(other, r.primary_item)

\* the customer-periods with a row in cust_item_stats
CustomerPeriods(p, table) ==
    { <<g.Year, g.CustomerCode>> : g \in cust_item_stats(p, table) }

\* profile row r is the SELECT list of a row of cust_item_stats that no row
\* of its partition sorts before
IsFirstRow(p, table, r) ==
    \E g \in RowNumberOne(p, cust_item_stats(p, table), r.Year,
                          r.CustomerCode) :
        \E b \in g.any_barcodes : r = ProfileOf(p, g, b)

\* C13, first part alone: exactly one profile row per customer-period, and
\* it is a row that is first under the ordering (share >= threshold, share,
\* sales, most recent transaction date), all descending.
C13_FirstRow ==
    query_executed =>
        /\ \A k \in CustomerPeriods(params, sales) :
              Cardinality({ r \in profiles :
                              r.Year = k[1] /\ r.CustomerCode = k[2] }) = 1
        /\ \A r \in profiles :
              /\ <<r.Year, r.CustomerCode>> \in CustomerPeriods(params, sales)
              /\ IsFirstRow(params, sales, r)

\* C13: exactly one profile row per customer-period, taken from the row
\* that is first under the ordering, with primary_item, primary_barcode and
\* primary_brand uniquely determined by the transactions: the query can
\* give no other profile table for the same sales and arguments.
C13_Determined ==
    query_executed =>
        /\ \A k \in CustomerPeriods(params, sales) :
              Cardinality({ r \in profiles :
                              r.Year = k[1] /\ r.CustomerCode = k[2] }) = 1
        /\ \A r \in profiles : IsFirstRow(params, sales, r)
        /\ primary_identification(params, sales) = {profiles}

\* the share of every row of cust_item_stats is the customer's period sales
\* of the row's grouping-key value over the customer's period sales, and a
\* customer-period with one grouping-key value and sales above zero has
\* that value as primary item
ShareByKey(p, table, prim) ==
    /\ \A g \in cust_item_stats(p, table) :
          /\ g.sales_item
                = KeySales(p, table, g.Year, g.CustomerCode, g.TargetItem)
          /\ g.share_item
                = SafeDivide(KeySales(p, table, g.Year, g.CustomerCode,
                                      g.TargetItem),
                             PeriodSales(p, table, g.Year, g.CustomerCode))
    /\ \A r \in prim :
          LET keys == KeysOf(p, table, r.Year, r.CustomerCode)
          IN  (Cardinality(keys) = 1
                 /\ PeriodSales(p, table, r.Year, r.CustomerCode) > 0)
                 => r.primary_item \in keys

\* C14: share[k] is computed per value k of the active grouping key, over
\* all the customer's period transactions with that value whatever their
\* brand or barcode; a customer whose whole period spend falls under one
\* custom label has share 1.0 for it and gets it as primary item.
C14_ShareByKey ==
    query_executed => ShareByKey(params, sales, profiles)

\* C14 with the product name as grouping key (no barcode_mapping)
C14_ProductMode ==
    (query_executed /\ params.barcode_mapping = << >>)
        => ShareByKey(params, sales, profiles)

\* the qualifying transactions of customer c in period yr
PeriodRows(p, table, yr, c) ==
    { r \in base(p, table) : r.Year = yr /\ r.CustomerCode = c }

\* C15: a customer with exactly one qualifying transaction in a period has
\* that transaction's grouping-key value as primary item (share 1.0) and is
\* not MIXED in that period, whatever the threshold and the sale amount.
C15_SingleTransaction ==
    query_executed =>
        \A c \in CustomerCodes, yr \in {"2024", "2025"} :
            \A t \in PeriodRows(params, sales, yr, c) :
                PeriodRows(params, sales, yr, c) = {t}
                   => ProfileItem(c, yr) = t.TargetItem

\* C15 for a transaction with a sale amount other than zero
C15_NonZeroSale ==
    query_executed =>
        \A c \in CustomerCodes, yr \in {"2024", "2025"} :
            \A t \in PeriodRows(params, sales, yr, c) :
                (PeriodRows(params, sales, yr, c) = {t} /\ t.TotalSales # 0)
                   => ProfileItem(c, yr) = t.TargetItem

----------------------------------------------------------------------------
(* Claims on the classified flow table *)

\* C16: the rows of the classified flow table are unique on
\* (prod_2024, prod_2025, move_type), duplicates being summed into one row,
\* and every row has customers >= 1.
C16_UniqueRows ==
    query_executed =>
        /\ \A r, s \in results_df :
              (r.prod_2024 = s.prod_2024 /\ r.prod_2025 = s.prod_2025
                 /\ r.move_type = s.move_type) => r = s
        /\ \A r \in results_df : r.customers >= 1

\* C16, second part alone: every row of the classified flow table has
\* customers >= 1.
C16_PositiveCounts ==
    query_executed => \A r \in results_df : r.customers >= 1

----------------------------------------------------------------------------
(* Claims on the Executive KPIs *)

KpiCall == call.fn = "calculate_executive_kpis"

\* the call returned a dict of KPIs (the summary was not empty)
KpisReturned == KpiCall /\ DOMAIN out # {}

\* row i is the first row of S with the greatest Net_Movement among the
\* rows at the positions idxs
FirstGreatest(S, idxs, i) ==
    /\ i \in idxs
    /\ \A j \in idxs : S[j].Net_Movement <= S[i].Net_Movement
    /\ \A j \in idxs : S[j].Net_Movement = S[i].Net_Movement => i <= j

\* row i is the first row of S with the least Net_Movement
FirstLeast(S, i) ==
    /\ i \in 1..Len(S)
    /\ \A j \in 1..Len(S) : S[i].Net_Movement <= S[j].Net_Movement
    /\ \A j \in 1..Len(S) : S[j].Net_Movement = S[i].Net_Movement => i <= j

\* C17: the winner is the entity with the largest Net_Movement among the
\* entities with Net_Movement > 0, or "None" with value 0 when no entity is
\* positive; the loser is the entity with the smallest Net_Movement over all
\* entities; of several tied entities the first in the order of the summary
\* is taken.
C17_WinnerLoser ==
    KpisReturned =>
        LET S == KpiSummary(df, call.brands)
            positive == { i \in 1..Len(S) : S[i].Net_Movement > 0 }
        IN  /\ IF positive = {}
               THEN out.winner_name = "None" /\ out.winner_val = 0
               ELSE \E i \in positive :
                       /\ FirstGreatest(S, positive, i)
                       /\ out.winner_name = S[i].Brand
                       /\ out.winner_val = S[i].Net_Movement
            /\ \E i \in 1..Len(S) :
                  /\ FirstLeast(S, i)
                  /\ out.loser_name = S[i].Brand
                  /\ out.loser_val = S[i].Net_Movement

\* two entities tie as winners behind an entity that is not positive, and
\* the first of the two is reported
C17_Witness ==
    /\ KpisReturned
    /\ LET S == KpiSummary(df, call.brands)
       IN  /\ Len(S) = 3
           /\ S[1].Net_Movement <= 0
           /\ S[2].Net_Movement > 0
           /\ S[2].Net_Movement = S[3].Net_Movement
           /\ out.winner_name = S[2].Brand
           /\ out.loser_name = S[1].Brand

\* no entity is positive and two entities tie as losers
C17_WitnessNone ==
    /\ KpisReturned
    /\ out.winner_name = "None"
    /\ LET S == KpiSummary(df, call.brands)
       IN  /\ Len(S) = 2
           /\ S[1].Net_Movement = S[2].Net_Movement
           /\ out.loser_name = S[1].Brand

\* C18: total_movement is the sum of the Period 1 totals of the summary
\* rows, churn_rate is (sum of Gone + sum of Switch_Out) / total_movement
\* x 100, 0 when total_movement is 0 and always within [0, 100], and
\* net_category_movement is (sum of New_Customer + sum of Switch_In)
\* - (sum of Switch_Out + sum of Gone).
C18_Kpis ==
    KpisReturned =>
        LET S == { s \in calculate_brand_summary(DisplayTable(df, call.brands)) :
                     call.brands # {} => s.Brand # OTHERS }
            total == SumOver(S, "Total_2024")
            out_flow == SumOver(S, "Gone") + SumOver(S, "Switch_Out")
            in_flow == SumOver(S, "New_Customer") + SumOver(S, "Switch_In")
        IN  /\ out.total_movement = total
            /\ out.churn_rate.den > 0
            /\ IF total = 0 THEN out.churn_rate.num = 0
               ELSE out.churn_rate.num * total
                       = out_flow * 100 * out.churn_rate.den
            /\ 0 <= out.churn_rate.num
            /\ out.churn_rate.num <= 100 * out.churn_rate.den
            /\ out.net_category_movement = in_flow - out_flow

\* a summary with customers switching out and customers gone
C18_Witness ==
    /\ KpisReturned
    /\ out.total_movement > 0
    /\ \E s \in calculate_brand_summary(DisplayTable(df, call.brands)) :
          s.Switch_Out > 0
    /\ out.total_gone > 0
    /\ out.churn_rate.num = 100 * out.churn_rate.den

\* a summary without Period 1 customers: the churn rate is 0
C18_WitnessZero ==
    /\ KpisReturned
    /\ out.total_movement = 0
    /\ out.churn_rate.num = 0
    /\ out.net_category_movement > 0

----------------------------------------------------------------------------
(* Claims on the empty selection and on the frame of the view functions *)

\* C19: with an empty selection filter_dataframe_by_brands returns exactly
\* the rows of its input, unchanged, in 'filtered' and in 'full' mode.
C19_EmptySelection ==
    (call.fn = "filter_dataframe_by_brands" /\ call.brands = {})
        => out = df

\* the full mode with no brand selected returns both rows of a table whose
\* origins a selection would remove or rename
C19_Witness ==
    /\ call.fn = "filter_dataframe_by_brands"
    /\ call.brands = {}
    /\ call.mode = "full"
    /\ Cardinality(out) = 2
    /\ \E r \in out : r.prod_2024 = NEW_TO_CATEGORY
    /\ \E r \in out : r.prod_2024 \in Items /\ r.prod_2025 \in Items

\* the filtered mode with no brand selected returns the table as it is
C19_WitnessFiltered ==
    /\ call.fn = "filter_dataframe_by_brands"
    /\ call.brands = {}
    /\ call.mode = "filtered"
    /\ Cardinality(out) = 2
    /\ \A r \in out : r.prod_2024 \in Items /\ r.prod_2025 \in Items

\* a view or summary function was called
ViewCall == call' # call

\* C20: no view or summary function changes the table it is given: over
\* every call of filter_dataframe_by_brands, aggregate_to_brand_level,
\* calculate_brand_summary, prepare_heatmap_data, prepare_waterfall_data,
\* get_top_flows and calculate_cohort_metrics (and of
\* calculate_executive_kpis on the summary made from it) df keeps its rows
\* and values.  Every call starts from a table some call sequence before it
\* has left as it was, so the step covers every sequence of calls.
C20_Frame == [][ViewCall => df' = df]_vars

\* the filtered view renamed rows to OTHERS and summed them while the
\* table it was made from still holds its two rows
C20_Witness ==
    /\ FilteredCall
    /\ Cardinality(df) = 2
    /\ \A r \in df : OTHERS \notin {r.prod_2024, r.prod_2025}
    /\ \E g \in out : OTHERS \in {g.prod_2024, g.prod_2025}
    /\ \A g \in out : g \notin df

\* the heatmap was prepared with display labels while the table keeps its
\* sentinels
C20_WitnessHeatmap ==
    /\ call.fn = "prepare_heatmap_data"
    /\ \E r \in df : r.prod_2024 = NEW_TO_CATEGORY
    /\ \E g \in out : g.prod_2024 = "New Customers"

----------------------------------------------------------------------------
(* Claims on empty tables *)

\* a rate that is a number and equal to 0
ZeroRate(rate) == rate.den > 0 /\ rate.num = 0

\* C21: on an empty flow table, or on a filtered view that is empty after
\* the OTHERS collapse, every function returns and what it returns is
\* empty: filter_dataframe_by_brands an empty table, calculate_brand_summary
\* an empty summary, calculate_executive_kpis an empty result, and
\* calculate_cohort_metrics counts and rates all equal to 0.
C21_EmptyTables ==
    /\ (call.fn = "filter_dataframe_by_brands" /\ df = {}) => out = {}
    /\ (call.fn = "calculate_brand_summary"
          /\ DisplayTable(df, call.brands) = {}) => out = {}
    /\ (KpiCall /\ DisplayTable(df, call.brands) = {}) => DOMAIN out = {}
    /\ (call.fn = "calculate_cohort_metrics"
          /\ DisplayTable(df, call.brands) = {})
          => /\ ZeroRate(out.retention_rate)
             /\ ZeroRate(out.churn_rate)
             /\ ZeroRate(out.switch_rate)
             /\ out.total_base = 0
             /\ out.stayed_customers = 0
             /\ out.gone_customers = 0
             /\ out.switch_out_customers = 0

\* the cohort metrics of a filtered view that is empty although the table
\* it was made from is not
C21_Witness ==
    /\ call.fn = "calculate_cohort_metrics"
    /\ call.brands # {}
    /\ df # {}
    /\ DisplayTable(df, call.brands) = {}
    /\ ZeroRate(out.retention_rate)

\* the Executive KPIs of the empty flow table
C21_WitnessKpis ==
    /\ KpiCall
    /\ df = {}
    /\ DOMAIN out = {}

\* the summary of a filtered view that is empty after the OTHERS collapse
C21_WitnessSummary ==
    /\ call.fn = "calculate_brand_summary"
    /\ call.brands # {}
    /\ df # {}
    /\ out = {}

----------------------------------------------------------------------------
(* Claims on the CustomType mapping text *)

\* both functions were applied to the mapping text
MappingDone == case_statement # NotBuilt /\ parsed_mapping.called

\* the (barcode, label) pairs the CASE applies: of several WHEN clauses
\* for one barcode the first is taken
AppliedPairs(whens) ==
    { <<whens[i][1], whens[i][2]>> :
        i \in { j \in 1..Len(whens) :
                  \A k \in 1..(j - 1) : whens[k][1] # whens[j][1] } }

\* the (barcode, label) pairs of a dict
DictPairs(dict) == { <<k, dict[k]>> : k \in DOMAIN dict }

\* the lines of the text that are not empty and split into two parts
TwoPartLines(text) ==
    { i \in 1..Len(text) :
        Strip(text[i]) # << >> /\ Len(PartsOf(text[i])) = 2 }

\* C22: build_case_statement emits one WHEN clause per non-empty line that
\* parses into (barcode, label) and skips every other line, sends every
\* barcode without a mapping to the catch-all label of a CASE, and applies
\* exactly the (barcode, label) pairs parse_barcode_mapping returns for the
\* same text.
C22_SameMapping ==
    MappingDone =>
        /\ Len(case_statement.whens) = Cardinality(TwoPartLines(mapping_text))
        /\ ~IsBlankText(mapping_text) => case_statement.kind = "CASE"
        /\ AppliedPairs(case_statement.whens) = DictPairs(parsed_mapping.dict)

\* C22 for texts in which every line with two parts has a barcode and a
\* label and no barcode is given twice
C22_CleanText ==
    (/\ MappingDone
     /\ TwoPartLines(mapping_text) # {}
     /\ \A i \in TwoPartLines(mapping_text) :
           /\ PartsOf(mapping_text[i])[1] # << >>
           /\ PartsOf(mapping_text[i])[2] # << >>
     /\ \A i, j \in TwoPartLines(mapping_text) :
           PartsOf(mapping_text[i])[1] = PartsOf(mapping_text[j])[1]
              => i = j)
        => /\ Len(case_statement.whens)
                 = Cardinality(TwoPartLines(mapping_text))
           /\ case_statement.kind = "CASE"
           /\ AppliedPairs(case_statement.whens)
                 = DictPairs(parsed_mapping.dict)

----------------------------------------------------------------------------
(* Claims on the Brand-level table *)

\* the movement types of the rows agree with their origin and destination
TypesConsistent(rows) ==
    \A r \in rows :
        /\ (r.move_type = "stayed") <=> (r.prod_2024 = r.prod_2025)
        /\ (r.move_type = "switched") => (r.prod_2024 # r.prod_2025)

\* every customer whose origin is entity e is counted in the stayed,
\* switch_out or gone of the summary row of e
CountedOnce(rows) ==
    \A s \in calculate_brand_summary(rows) :
        Total({ r \in rows : r.prod_2024 = s.Brand })
            = s.Stayed + s.Switch_Out + s.Gone

BrandView == query_executed /\ view_mode = "Brand" /\ ~IsCustomMode(params)

\* C23: in the Brand-level table a row is stayed if and only if its from
\* brand equals its to brand and a switched row has different brands, so
\* for each brand every customer whose Before brand it is is counted in
\* exactly one of stayed, switch_out and gone.
C23_BrandLevel ==
    BrandView => TypesConsistent(df_working) /\ CountedOnce(df_working)

\* C23 for the product-level table of the query
C23_ProductLevel ==
    query_executed => TypesConsistent(results_df) /\ CountedOnce(results_df)

(* C24  summary totals against waterfall totals *)

\* the waterfall of entity e reports the Period 1 and Period 2 totals of
\* e's summary row
WaterfallAgrees(rows) == \A s \in calculate_brand_summary(rows) :
    LET w == prepare_waterfall_data(rows, s.Brand)
    IN  /\ w.values[1] = s.Total_2024
        /\ w.values[6] = s.Total_2025

\* C24: for every flow table and every entity, the Period 1 total of the
\* summary (stayed + switch_out + gone) equals the waterfall's Period 1
\* total (all rows leaving the entity), and the Period 2 total of the
\* summary (stayed + switch_in + new_customer) equals the waterfall's
\* Period 2 total (all rows arriving at the entity); here on the Brand
\* view's table
C24_BrandLevel == BrandView => WaterfallAgrees(df_working)

\* C24 on the product-level table: the two totals agree
C24_ProductLevel == query_executed => WaterfallAgrees(results_df)

(* C26  the brand list restricts the Before period only *)

\* the brands a from-end of a filtered run may carry
BeforeBrands(p) == p.brands \cup {NEW_TO_CATEGORY, MIXED}

PeriodsOverlap(p) == \E d \in Dates : InPeriod1(p, d) /\ InPeriod2(p, d)

\* C26: given a non-empty brand list, every Before profile is computed
\* from transactions of the selected brands alone, so every from-end of
\* the result is NEW_TO_CATEGORY, MIXED or of a selected brand
C26_BeforeBrands ==
    (query_executed /\ params.brands # {})
        => \A r \in results_df : r.brand_2024 \in BeforeBrands(params)

\* C26 where no date lies in both periods: the from-ends are of the
\* selected brands
C26_DisjointPeriods ==
    (query_executed /\ params.brands # {} /\ ~PeriodsOverlap(params))
        => \A r \in results_df : r.brand_2024 \in BeforeBrands(params)

\* C26: a transaction is attributed to one period, the Before period when
\* its date lies in both
C26_OnePeriod ==
    \A t \in sales : \A p \in ParamChoices :
        LET rows == { r \in base(p, {t}) : r.Year # Null }
        IN  /\ Cardinality(rows) <= 1
            /\ \A r \in rows : InPeriod1(p, r.Date) => r.Year = "2024"

(* C27  switch-in and switch-out count flows between concrete entities *)

\* the customers of the rows from one concrete entity to another one
ConcreteFlow(rows, from, to) ==
    Total({ r \in rows : /\ r.prod_2024 \in from /\ r.prod_2025 \in to
                         /\ r.prod_2024 # r.prod_2025
                         /\ r.prod_2024 \notin SpecialCategories
                         /\ r.prod_2025 \notin SpecialCategories })

EntitiesOf(rows) ==
    ({ r.prod_2024 : r \in rows } \cup { r.prod_2025 : r \in rows })
        \ SpecialCategories

\* C27: Switch_Out and Switch_In of an entity count only the rows whose
\* other end is a different concrete entity; a row whose other end is
\* NEW_TO_CATEGORY, LOST_FROM_CATEGORY or MIXED adds to neither
C27_ConcreteOnly ==
    query_executed =>
        \A s \in calculate_brand_summary(results_df) :
            /\ s.Switch_Out = ConcreteFlow(results_df, {s.Brand},
                                           EntitiesOf(results_df))
            /\ s.Switch_In = ConcreteFlow(results_df, EntitiesOf(results_df),
                                          {s.Brand})

\* C27: over all entities of the unfiltered table the switch-ins add up to
\* the switch-outs
C27_Balanced ==
    query_executed =>
        SumOver(calculate_brand_summary(results_df), "Switch_In")
            = SumOver(calculate_brand_summary(results_df), "Switch_Out")

\* C27 on a table without the MIXED sentinel: both statements hold
C27_NoMixed ==
    (query_executed /\ \A r \in results_df : r.prod_2024 # MIXED
                                             /\ r.prod_2025 # MIXED)
        => /\ \A s \in calculate_brand_summary(results_df) :
                /\ s.Switch_Out = ConcreteFlow(results_df, {s.Brand},
                                               EntitiesOf(results_df))
                /\ s.Switch_In = ConcreteFlow(results_df,
                                              EntitiesOf(results_df), {s.Brand})
           /\ SumOver(calculate_brand_summary(results_df), "Switch_In")
                = SumOver(calculate_brand_summary(results_df), "Switch_Out")

----------------------------------------------------------------------------
(* Claims on the cross-category query *)

\* the customers with a Before purchase in the source categories
SourceCustomers ==
    { t.CustomerCode :
        t \in { x \in cross_sales : SourceFilter(cross_params, x) } }

\* the After purchases of customer c in the source or target categories
AfterPurchases(c) ==
    { t \in cross_sales :
        /\ t.CustomerCode = c
        /\ t.Date = CrossPeriod2
        /\ CrossMaster[t.Barcode].CategoryName
              \in all_target_cats(cross_params) }

\* C25: a customer is classified stayed only if the After primary category
\* and subcategory are the Before primary category and subcategory
C25_StayedSame ==
    cross_category_executed =>
        \A f \in cross_flow :
            f.move_type = "stayed"
                => /\ f.target_cat = f.source_cat
                   /\ f.target_subcat = f.source_subcat

\* C25: a customer is classified gone iff the customer has no After
\* purchase in the source or target categories
C25_GoneIff ==
    cross_category_executed =>
        \A f \in cross_flow :
            (f.move_type = "gone") <=> (AfterPurchases(f.CustomerCode) = {})

\* C25: every source customer is counted exactly once, in one row of the
\* result
C25_CountedOnce ==
    cross_category_executed =>
        /\ { f.CustomerCode : f \in cross_flow } = SourceCustomers
        /\ \A f, g \in cross_flow : f.CustomerCode = g.CustomerCode => f = g
        /\ SumOver(cross_category_df, "customers")
              = Cardinality(SourceCustomers)

\* C25 without subcategory lists: gone iff no After purchase in the source
\* or target categories
C25_GoneNoSubcategories ==
    (cross_category_executed
        /\ all_target_subcats(cross_params) = {})
        => \A f \in cross_flow :
             (f.move_type = "gone") <=> (AfterPurchases(f.CustomerCode) = {})

----------------------------------------------------------------------------
(* Claims on the browser session *)

\* a result block shows a result computed in the selected mode
ShownInOwnMode ==
    rendered.block \in {"cross_results", "switch_results"}
        => rendered.computed_in = rendered.mode

\* an execution flag that is True has its result in the session state
FlagHasResult ==
    /\ session_state.query_executed
          => "results_df" \in session_state.keys
    /\ session_state.cross_category_executed
          => "cross_category_df" \in session_state.keys

\* after a change of mode the script reaches the result blocks with the
\* stored results deleted and the three flags False
ClearedOnChange ==
    event.mode_changed
        => /\ rendered.keys_at_blocks \cap keys_to_clear = {}
           /\ rendered.flags_at_blocks = {}

\* C28: over every sequence of reruns, stored results are never shown
\* under another analysis mode than the one they were computed in: when
\* the selected mode differs from previous_analysis_mode (not None) the
\* stored results are deleted and the execution flags are False before a
\* result block runs, and query_executed (cross_category_executed) is True
\* only while results_df (cross_category_df) is in the session state
C28_NoStaleResults == ShownInOwnMode /\ FlagHasResult /\ ClearedOnChange

\* C28 happens: a change of mode deleted stored results
C28_Witness ==
    /\ event.mode_changed
    /\ "results_df" \in event.cleared
    /\ rendered.block = "none"

\* C28 happens: a stored cross-category result is shown again on a rerun
\* without Run Analysis
C28_WitnessShown ==
    /\ event.kind = "rerun" /\ ~event.run_analysis
    /\ rendered.block = "cross_results"

\* the configured users whose password is the one given
UsersWith(password) == { i \in 1..Len(Users) : Users[i].password = password }

RoleOrDefault(i) == IF Users[i].role = Null THEN "user" ELSE Users[i].role

\* nothing beyond the login page is rendered without authentication, and
\* the admin dashboard only for the role admin
LoginGate ==
    /\ rendered.page \in {"analysis", "dashboard"}
          => is_authenticated(session_state)
    /\ rendered.page = "dashboard" => session_state.role = "admin"

\* a password that is wrong or empty leaves the session on the login page
WrongPassword ==
    (event.kind = "login"
        /\ (event.password = "" \/ UsersWith(event.password) = {}))
        => /\ ~is_authenticated(session_state)
           /\ rendered.page = "login"

\* logout removes both keys and the login page is shown
LoggedOut ==
    event.kind = "logout"
        => /\ session_state.keys \cap {"authenticated", "role"} = {}
           /\ rendered.page = "login"

\* the session becomes authenticated only by the submission of a
\* non-empty password of a configured user, with that user's role
GrantStep ==
    (~is_authenticated(session_state) /\ is_authenticated(session_state'))
        => /\ event'.kind = "login"
           /\ event'.password # ""
           /\ \E i \in UsersWith(event'.password) :
                 session_state'.role = RoleOrDefault(i)

\* C29: in every rerun nothing beyond the login page is rendered unless
\* the session is authenticated; authenticated becomes True only when a
\* non-empty submitted password equals a configured user's password (the
\* role is that user's role, default 'user'); a wrong password leaves the
\* session unauthenticated on the login page; logout removes authenticated
\* and role, so the login page is shown; the admin dashboard is rendered
\* only while the role is admin
C29_LoginGate ==
    /\ [](LoginGate /\ WrongPassword /\ LoggedOut)
    /\ [][GrantStep]_vars

\* C29 happens: an admin is on the dashboard
C29_Witness ==
    /\ rendered.page = "dashboard"
    /\ is_authenticated(session_state)

\* C29 happens: the user without a configured role has logged in
C29_WitnessDefaultRole ==
    /\ event.kind = "login" /\ event.password = "guest"
    /\ session_state.role = "user"
    /\ rendered.page = "analysis"

\* C29 happens: a logged-in session has been logged out
C29_WitnessLogout == event.kind = "logout" /\ rendered.page = "login"

\* C29 happens: a wrong password has been submitted
C29_WitnessWrong == event.kind = "login" /\ event.password = "wrong"

----------------------------------------------------------------------------
(* Claims on the usage tracking *)

\* SELECT ... FROM events WHERE session_id = ? ORDER BY id DESC LIMIT 1
MostRecent(session_id) ==
    LET ids == { i \in 1..Len(tracking_db.events) :
                   tracking_db.events[i].session_id = session_id }
    IN  tracking_db.events[MaxOf(ids)]

\* the last call of log_event wrote its row
Logged == log_call.called /\ log_call.written

\* the stored event_data JSON-decodes to the dict d
DecodesTo(column, d) ==
    /\ ~column.isnull
    /\ DictEq(json_loads(column.text), d)

StringKeys(d) == \A i \in 1..Len(d) : d[i][1].t = "str"

\* C30: after init_db, log_event stores one new events row, and the most
\* recent row of the session has the given event_type and an event_data
\* that JSON-decodes to the dict that was passed, for every dict and with
\* or without a sessions row
C30_RoundTrip ==
    Logged =>
        /\ Len(tracking_db.events) = Len(log_call.events_before) + 1
        /\ MostRecent(log_call.session_id).event_type = log_call.event_type
        /\ DecodesTo(MostRecent(log_call.session_id).event_data,
                     log_call.event_data)

\* C30: a written call adds exactly one row, of the given session and
\* event type, and keeps the rows before it; a failed write leaves the
\* events table as it was; log_event does not raise
C30_OneRow ==
    log_call.called =>
        /\ ~log_call.raised
        /\ log_call.written
              => /\ Len(tracking_db.events) = Len(log_call.events_before) + 1
                 /\ SubSeq(tracking_db.events, 1, Len(log_call.events_before))
                       = log_call.events_before
                 /\ MostRecent(log_call.session_id).event_type
                       = log_call.event_type
        /\ ~log_call.written => tracking_db.events = log_call.events_before

\* C30 for a non-empty dict with string keys: the stored event_data
\* decodes to the dict, with and without a sessions row
C30_NonEmptyStringKeys ==
    (Logged /\ log_call.event_data # << >> /\ StringKeys(log_call.event_data))
        => DecodesTo(MostRecent(log_call.session_id).event_data,
                     log_call.event_data)

====
